--------------------------- MODULE FiltersProofs ---------------------------
(***************************************************************************)
(* The filters are right for inputs of any length.                         *)
(***************************************************************************)
EXTENDS Filters, WellFoundedInduction, TLAPS

(* The last "<" has not been followed by a ">" yet. *)
Unclosed ==
  \E j \in Read : text[j] = "<" /\ \A k \in j + 1 .. Len(text) : text[k] # ">"

(* The part of the types the copying depends on. *)
CopyTypes ==
  /\ MaxLength \in Nat
  /\ prog \in Programs /\ text \in Seq(Chars)
  /\ state \in {"running", "done", "overrun"}
  /\ inTag \in BOOLEAN
  /\ Remover => out \in Seq(Nat) /\ \A n \in Copied : out[n] \in Read

(* inTag, a single flag, stands for what TextKept says of all brackets.    *)
CopyInv ==
  /\ CopyTypes
  /\ Remover /\ state = "running" => (inTag <=> Unclosed)
  /\ TextKept

(* What was read stays what it was. *)
LEMMA GetcKeeps ==
  ASSUME NEW c \in Chars, CopyTypes, Getc(c)
  PROVE  /\ text' \in Seq(Chars) /\ Len(text') = Len(text) + 1
         /\ text'[Here] = c
         /\ \A i \in Read : text'[i] = text[i]
         /\ Read' = Read \cup {Here} /\ Len(text) \in Nat
  BY DEF CopyTypes, Getc, Here, Read

(* So a character is text of its own for good, ... *)
LEMMA InTextKept ==
  ASSUME NEW c \in Chars, CopyTypes, Getc(c), NEW i \in Read
  PROVE  InText(i)' <=> InText(i)
  <1>1. text'[i] = text[i] /\ \A j \in 1 .. i - 1 : text'[j] = text[j]
    BY GetcKeeps DEF Read
  <1> QED
    BY <1>1 DEF InText

(* ... and the one just read is if it is no bracket and no tag is open. *)
LEMMA InTextNew ==
  ASSUME NEW c \in Chars, CopyTypes, Getc(c), NEW h, h = Here
  PROVE  InText(h)' <=> c \in Plain /\ ~Unclosed
  <1>1. /\ h \in Nat /\ h - 1 = Len(text) /\ Len(text) \in Nat
        /\ text'[h] = c /\ \A i \in 1 .. h - 1 : text'[i] = text[i]
    BY GetcKeeps DEF Here, Read
  <1>2. InText(h)' <=>
          c \in Plain /\ \A j \in 1 .. h - 1 :
                            text[j] = "<" => \E k \in j + 1 .. h - 1 : text[k] = ">"
    BY <1>1 DEF InText
  <1>3. ~Unclosed <=>
          \A j \in 1 .. h - 1 : text[j] = "<" => \E k \in j + 1 .. h - 1 : text[k] = ">"
    BY <1>1 DEF Unclosed, Read
  <1> QED
    BY <1>2, <1>3

(* A bracket decides whether a tag is open. *)
LEMMA UnclosedNew ==
  ASSUME NEW c \in Chars, CopyTypes, Getc(c)
  PROVE  /\ c \in Plain => (Unclosed' <=> Unclosed)
         /\ c \notin Plain => (Unclosed' <=> c = "<")
  <1> DEFINE h == Len(text) + 1
  <1>1. /\ h \in Nat /\ Len(text') = h /\ Len(text) \in Nat /\ Len(text) = h - 1
        /\ text'[h] = c /\ \A i \in 1 .. h - 1 : text'[i] = text[i]
        /\ Read' = 1 .. h /\ Read = 1 .. h - 1
    BY GetcKeeps DEF Here, Read
  <1> HIDE DEF h
  <1>2. Unclosed' <=> \E j \in 1 .. h : text'[j] = "<" /\ \A k \in j + 1 .. h : text'[k] # ">"
    BY <1>1 DEF Unclosed
  <1>3. Unclosed <=> \E j \in 1 .. h - 1 : text[j] = "<" /\ \A k \in j + 1 .. h - 1 : text[k] # ">"
    BY <1>1 DEF Unclosed
  <1>4. CASE c \in Plain
    <2>1. c # "<" /\ c # ">"
      BY <1>4 DEF Plain
    <2> QED
      BY <1>1, <1>2, <1>3, <1>4, <2>1
  <1>5. CASE c \notin Plain
    <2>1. c = "<" \/ c = ">"
      BY <1>5 DEF Plain, Chars
    <2>2. CASE c = "<"
      BY <1>1, <1>2, <1>5, <2>2
    <2>3. CASE c = ">"
      BY <1>1, <1>2, <1>5, <2>3
    <2> QED
      BY <2>1, <2>2, <2>3
  <1> QED
    BY <1>4, <1>5

-----------------------------------------------------------------------------
(* Between two characters: nothing is added, all of out is copied text.    *)
LEMMA InitCopies == FilterInit => CopyInv
  <1> SUFFICES ASSUME FilterInit PROVE CopyInv
    OBVIOUS
  <1>1. text = <<>> /\ out = <<>> /\ state = "running" /\ inTag = FALSE /\ prog \in Programs
    BY DEF FilterInit
  <1>2. Read = {} /\ Copied = {}
    BY <1>1 DEF Read, Copied
  <1>3. CopyTypes
    <2>1. \A n \in Copied : out[n] \in Read
      BY <1>2
    <2>2. text \in Seq(Chars) /\ out \in Seq(Nat) /\ MaxLength \in Nat
      BY <1>1, FilterAssumption DEF FilterAssumption
    <2> QED
      BY <1>1, <2>1, <2>2 DEF CopyTypes
  <1>4. ~Unclosed /\ TextKept
    BY <1>1, <1>2 DEF Unclosed, TextKept, AddsNewline
  <1> QED
    BY <1>1, <1>3, <1>4 DEF CopyInv

LEMMA BracketCopies ==
  ASSUME CopyInv, NEW c \in Chars, Bracket(c)
  PROVE  CopyInv'
  <1>1. CopyTypes /\ Getc(c) /\ c \notin Plain /\ state = "running" /\ state' = "running"
        /\ Remover /\ Remover' /\ out' = out /\ prog' = prog
        /\ inTag' = (c = "<") /\ TextKept /\ MaxLength \in Nat
    BY DEF CopyInv, Bracket, Getc, Remover, InTag, CopyTypes
  <1>2. Unclosed' <=> c = "<"
    BY <1>1, UnclosedNew
  <1>3. Copied = 1 .. Len(out) /\ Copied' = 1 .. Len(out)
    BY <1>1 DEF Copied, AddsNewline
  <1>4. Read' = Read \cup {Here} /\ Here \notin Read /\ text' \in Seq(Chars)
    BY <1>1, GetcKeeps DEF Here, Read
  <1>5. CopyTypes'
    BY <1>1, <1>3, <1>4 DEF CopyTypes
  <1>6. \A i \in Read : InText(i)' <=> InText(i)
    BY <1>1, InTextKept
  <1>7. \A h : h = Here => ~InText(h)'
    BY <1>1, InTextNew
  <1>8. TextKept'
    BY <1>1, <1>3, <1>4, <1>5, <1>6, <1>7 DEF TextKept, CopyTypes, AddsNewline
  <1> QED
    BY <1>1, <1>2, <1>5, <1>8 DEF CopyInv

LEMMA InsideCopies ==
  ASSUME CopyInv, NEW c \in Chars, Inside(c)
  PROVE  CopyInv'
  <1>1. CopyTypes /\ Getc(c) /\ c \in Plain /\ state = "running" /\ state' = "running"
        /\ Remover /\ Remover' /\ out' = out /\ prog' = prog
        /\ inTag' = inTag /\ inTag = TRUE /\ TextKept /\ MaxLength \in Nat /\ (inTag <=> Unclosed)
    BY DEF CopyInv, Inside, Getc, Remover, CopyTypes
  <1>2. Unclosed' <=> Unclosed
    BY <1>1, UnclosedNew
  <1>3. Copied = 1 .. Len(out) /\ Copied' = 1 .. Len(out)
    BY <1>1 DEF Copied, AddsNewline
  <1>4. Read' = Read \cup {Here} /\ Here \notin Read /\ text' \in Seq(Chars)
    BY <1>1, GetcKeeps DEF Here, Read
  <1>5. CopyTypes'
    BY <1>1, <1>3, <1>4 DEF CopyTypes
  <1>6. \A i \in Read : InText(i)' <=> InText(i)
    BY <1>1, InTextKept
  <1>7. \A h : h = Here => ~InText(h)'
    BY <1>1, InTextNew
  <1>8. TextKept'
    BY <1>1, <1>3, <1>4, <1>5, <1>6, <1>7 DEF TextKept, CopyTypes, AddsNewline
  <1> QED
    BY <1>1, <1>2, <1>5, <1>8 DEF CopyInv

LEMMA OutsideCopies ==
  ASSUME CopyInv, NEW c \in Chars, Outside(c)
  PROVE  CopyInv'
  <1> DEFINE h == Here  l == Len(out)
  <1>1. CopyTypes /\ Getc(c) /\ c \in Plain /\ state = "running" /\ state' = "running"
        /\ Remover /\ Remover' /\ out' = Append(out, Here) /\ prog' = prog
        /\ inTag' = FALSE /\ inTag = FALSE /\ TextKept /\ MaxLength \in Nat /\ (inTag <=> Unclosed)
    BY DEF CopyInv, Outside, Getc, Remover, CopyTypes
  <1>2. ~Unclosed /\ ~Unclosed'
    BY <1>1, UnclosedNew
  <1>3. out \in Seq(Nat) /\ Copied = 1 .. l /\ l \in Nat /\ \A n \in 1 .. l : out[n] \in Read
    BY <1>1 DEF Copied, AddsNewline, CopyTypes
  <1>4. Read' = Read \cup {h} /\ text' \in Seq(Chars) /\ h \in Nat
        /\ \A i \in Read : i < h /\ i \in Nat
    BY <1>1, GetcKeeps DEF Here, Read
  <1>5. /\ out' \in Seq(Nat) /\ Len(out') = l + 1
        /\ out'[l + 1] = h /\ \A n \in 1 .. l : out'[n] = out[n]
    BY <1>1, <1>3, <1>4
  <1>6. Copied' = 1 .. l + 1 /\ 1 .. l + 1 = (1 .. l) \cup {l + 1}
    <2>1. Copied' = 1 .. l + 1
      BY <1>1, <1>5 DEF Copied, AddsNewline
    <2>2. 1 .. l + 1 = (1 .. l) \cup {l + 1}
      BY <1>3
    <2> QED
      BY <2>1, <2>2
  <1>7. CopyTypes'
    <2>1. ASSUME NEW n \in Copied' PROVE out'[n] \in Read'
      BY <1>3, <1>4, <1>5, <1>6
    <2> QED
      BY <1>1, <1>4, <1>5, <2>1 DEF CopyTypes
  <1>8. \A i \in Read : InText(i)' <=> InText(i)
    BY <1>1, InTextKept
  <1>9. \A g : g = h => InText(g)'
    BY <1>1, <1>2, InTextNew
  <1> HIDE DEF h, l
  <1>10. \A i \in Read' : InText(i)' <=> \E n \in 1 .. l + 1 : out'[n] = i
    <2>1. \A i \in Read : InText(i) <=> \E n \in 1 .. l : out[n] = i
      BY <1>1, <1>3 DEF TextKept
    <2>2. ASSUME NEW i \in Read
          PROVE  InText(i)' <=> \E n \in 1 .. l + 1 : out'[n] = i
      <3>1. i # h
        BY <1>4
      <3>2. (\E n \in 1 .. l + 1 : out'[n] = i) <=> \E n \in 1 .. l : out[n] = i
        BY <3>1, <1>5, <1>6
      <3> QED
        BY <2>1, <3>2, <1>8
    <2>3. ASSUME NEW i, i = h
          PROVE  InText(i)' /\ \E n \in 1 .. l + 1 : out'[n] = i
      BY <2>3, <1>3, <1>5, <1>9
    <2> QED
      BY <2>2, <2>3, <1>4
  <1>11. \A m, n \in 1 .. l + 1 : m < n => out'[m] < out'[n]
    <2>1. \A m, n \in 1 .. l : m < n => out[m] < out[n]
      BY <1>1, <1>3 DEF TextKept
    <2>2. \A n \in 1 .. l : out'[n] = out[n] /\ out[n] < h
      BY <1>3, <1>4, <1>5
    <2> QED
      BY <2>1, <2>2, <1>3, <1>5, <1>6
  <1>12. TextKept'
    BY <1>1, <1>6, <1>10, <1>11 DEF TextKept, AddsNewline
  <1> QED
    BY <1>1, <1>2, <1>7, <1>12 DEF CopyInv

LEMMA RemoverEndsCopies ==
  ASSUME CopyInv, RemoverEnds
  PROVE  CopyInv'
  <1> DEFINE l == Len(out)
  <1>1. CopyTypes /\ state = "running" /\ state' = "done" /\ text' = text
        /\ Remover /\ Remover' /\ prog' = prog /\ inTag' = inTag /\ TextKept
        /\ out' = IF prog = "delayedremovetag" THEN Append(out, 0) ELSE out
    BY DEF CopyInv, RemoverEnds, Eof, Remover, tagVars
  <1>2. out \in Seq(Nat) /\ Copied = 1 .. l /\ l \in Nat /\ \A n \in 1 .. l : out[n] \in Read
    BY <1>1 DEF Copied, AddsNewline, CopyTypes
  <1>3. AddsNewline' <=> prog = "delayedremovetag"
    BY <1>1 DEF AddsNewline
  <1>4. /\ out' \in Seq(Nat)
        /\ AddsNewline' => Len(out') = l + 1 /\ out'[l + 1] = 0
        /\ ~AddsNewline' => Len(out') = l
        /\ \A n \in 1 .. l : out'[n] = out[n]
    BY <1>1, <1>2, <1>3
  <1> HIDE DEF l
  <1>5. Copied' = 1 .. l
    BY <1>2, <1>4 DEF Copied
  <1>6. Read' = Read /\ \A i \in Read : InText(i)' <=> InText(i)
    BY <1>1 DEF Read, InText
  <1>7. CopyTypes'
    BY <1>1, <1>2, <1>4, <1>5, <1>6 DEF CopyTypes
  <1>8. TextKept'
    BY <1>1, <1>2, <1>4, <1>5, <1>6 DEF TextKept
  <1> QED
    BY <1>1, <1>7, <1>8 DEF CopyInv

(* The other steps write nothing that is copied, or are those of number.   *)
LEMMA OverrunCopies ==
  ASSUME CopyInv, NEW c \in Chars, Overrun(c)
  PROVE  CopyInv'
  <1>1. CopyTypes /\ Getc(c) /\ state = "running" /\ state' = "overrun" /\ prog' = prog
        /\ Remover /\ out' = out /\ inTag' = inTag
    BY DEF CopyInv, Overrun, Getc, tagVars
  <1>2. Copied = 1 .. Len(out) /\ Copied' = 1 .. Len(out)
    BY <1>1 DEF Copied, AddsNewline
  <1>3. Read' = Read \cup {Here} /\ text' \in Seq(Chars)
    BY <1>1, GetcKeeps
  <1>4. CopyTypes'
    BY <1>1, <1>2, <1>3 DEF CopyTypes, Remover
  <1> QED
    BY <1>1, <1>4 DEF CopyInv, TextKept, Remover

LEMMA NumberCopies ==
  ASSUME CopyInv, NEW c \in Chars, Collect(c) \/ LineEnds(c) \/ NumberEnds
  PROVE  CopyInv'
  <1>1. CopyTypes /\ ~Remover /\ ~Remover' /\ prog' = prog /\ inTag' = inTag
    BY DEF CopyInv, Collect, LineEnds, NumberEnds, Getc, Eof, Remover, tagVars
  <1>2. state' \in {"running", "done"} /\ text' \in Seq(Chars)
    BY DEF CopyInv, CopyTypes, Collect, LineEnds, NumberEnds, Getc, Eof
  <1>3. CopyTypes'
    BY <1>1, <1>2 DEF CopyTypes
  <1> QED
    BY <1>1, <1>3 DEF CopyInv, TextKept

LEMMA StutterCopies ==
  ASSUME CopyInv, UNCHANGED filterVars
  PROVE  CopyInv'
  BY DEF CopyInv, CopyTypes, TextKept, Unclosed, Read, Copied, AddsNewline, Remover, InText,
         filterVars, tagVars, numberVars

LEMMA CopyStep ==
  ASSUME CopyInv, [FilterNext]_filterVars
  PROVE  CopyInv'
<1>1. CASE \E c \in Chars : Bracket(c) \/ Inside(c) \/ Outside(c) \/ Overrun(c)
  BY <1>1, BracketCopies, InsideCopies, OutsideCopies, OverrunCopies
<1>2. CASE \E c \in Chars : Collect(c) \/ LineEnds(c)
  BY <1>2, NumberCopies
<1>3. CASE RemoverEnds
  BY <1>3, RemoverEndsCopies
<1>4. CASE NumberEnds
  <2>1. "a" \in Chars
    BY DEF Chars
  <2> QED
    BY <1>4, <2>1, NumberCopies
<1>5. CASE UNCHANGED filterVars
  BY <1>5, StutterCopies
<1> QED
  BY <1>1, <1>2, <1>3, <1>4, <1>5 DEF FilterNext

(* Whatever brackets the input has, nested, unbalanced or in any order,    *)
(* and however long it is, removetag, removetag0 and delayedremovetag      *)
(* write exactly the characters outside of tags, once and in order.        *)
THEOREM TextIsKept == FilterSpec => []TextKept
  <1>1. FilterInit => CopyInv
    BY InitCopies
  <1>2. CopyInv /\ [FilterNext]_filterVars => CopyInv'
    BY CopyStep
  <1>3. CopyInv => TextKept
    BY DEF CopyInv
  <1> QED
    BY <1>1, <1>2, <1>3, PTL DEF FilterSpec

-----------------------------------------------------------------------------
(* number                                                                  *)

(* What number has written of the lines before the character n. *)
LinesBefore(n) ==
  /\ numbered \in Seq(Nat)
  /\ \A i, j \in 1 .. Len(numbered) : i < j => numbered[i] < numbered[j]
  /\ {numbered[i] : i \in 1 .. Len(numbered)}
       = {i \in 1 .. n - 1 : i = 1 \/ text[i - 1] = "newline"}

(* str begins with the line that is being read, and holds all of it. *)
LineOpen ==
  /\ start \in 1 .. Len(text) + 1
  /\ start = 1 \/ text[start - 1] = "newline"
  /\ \A i \in start .. Len(text) : text[i] # "newline"

NumberTypes ==
  /\ MaxLength \in Nat /\ prog \in Programs
  /\ text \in Seq(Chars) /\ state \in {"running", "done", "overrun"}
  /\ prog = "number" => state # "overrun"

NumberInv ==
  /\ NumberTypes
  /\ prog = "number" /\ state = "running" /\ NulFree =>
       LineOpen /\ LinesBefore(start) /\ out = [i \in 1 .. start - 1 |-> i]
  /\ LinesNumbered

LEMMA Concatenated ==
  ASSUME NEW m \in Nat, NEW n \in Nat
  PROVE  [i \in 1 .. m |-> i] \o [k \in 1 .. n |-> m + k] = [i \in 1 .. m + n |-> i]
<1> DEFINE s == [i \in 1 .. m |-> i]  t == [k \in 1 .. n |-> m + k]  u == [i \in 1 .. m + n |-> i]
<1>1. s \in Seq(Nat) /\ Len(s) = m /\ t \in Seq(Nat) /\ Len(t) = n /\ u \in Seq(Nat) /\ Len(u) = m + n
  OBVIOUS
<1>2. s \o t \in Seq(Nat) /\ Len(s \o t) = m + n
  BY <1>1
<1>3. \A i \in 1 .. m + n : (s \o t)[i] = u[i]
  BY <1>1
<1> QED BY <1>1, <1>2, <1>3

(* Without a NUL "%s" prints all of a string. *)
LEMMA WholeString ==
  ASSUME NEW s \in Seq(Nat), NEW t, \A k \in 1 .. Len(s) : t[s[k]] # "nul"
  PROVE  CString(s, t) = s
<1> DEFINE Ends(n) == (\A k \in 1 .. n : t[s[k]] # "nul") /\ (n = Len(s) \/ t[s[n + 1]] = "nul")
<1>1. Len(s) \in 0 .. Len(s) /\ Ends(Len(s))
  OBVIOUS
<1>2. \A n \in 0 .. Len(s) : Ends(n) => n = Len(s)
  OBVIOUS
<1>3. (CHOOSE n \in 0 .. Len(s) : Ends(n)) = Len(s)
  BY <1>1, <1>2
<1>4. SubSeq(s, 1, Len(s)) = s
  OBVIOUS
<1> QED BY <1>3, <1>4 DEF CString

(* What is collected since start, up to the character n. *)
LEMMA StrIs ==
  ASSUME NEW n \in Nat, NEW a \in 1 .. n + 1, a = start
  PROVE  /\ Str(n) \in Seq(Nat) /\ Len(Str(n)) = n + 1 - a
         /\ \A k \in 1 .. Len(Str(n)) : Str(n)[k] = a + k - 1 /\ Str(n)[k] \in a .. n
         /\ [i \in 1 .. a - 1 |-> i] \o Str(n) = [i \in 1 .. n |-> i]
<1> DEFINE l == n + 1 - a  s == [k \in 1 .. l |-> a + k - 1]
<1>1. l \in Nat /\ a \in Nat /\ a - 1 \in Nat /\ (a - 1) + l = n
  OBVIOUS
<1>2. Str(n) = s
  BY DEF Str
<1>3. \A k \in 1 .. l : a + k - 1 \in Nat /\ a + k - 1 \in a .. n /\ a + k - 1 = (a - 1) + k
  BY <1>1
<1>4. s \in [1 .. l -> Nat]
  BY <1>3
<1>5. s \in Seq(Nat) /\ Len(s) = l
  BY <1>1, <1>4
<1>6. s = [k \in 1 .. l |-> (a - 1) + k]
  BY <1>3
<1> HIDE DEF l
<1>7. [i \in 1 .. a - 1 |-> i] \o s = [i \in 1 .. n |-> i]
  BY <1>1, <1>6, Concatenated
<1> QED BY <1>2, <1>3, <1>5, <1>7 DEF l

LEMMA NumberInit == FilterInit => NumberInv
<1> SUFFICES ASSUME FilterInit PROVE NumberInv
  OBVIOUS
<1>1. /\ prog \in Programs /\ text = <<>> /\ state = "running" /\ out = <<>> /\ numbered = <<>> /\ start = 1
  BY DEF FilterInit
<1>2. NumberTypes
  BY <1>1, FilterAssumption DEF NumberTypes
<1>3. out = [i \in 1 .. start - 1 |-> i]
  BY <1>1
<1> QED BY <1>1, <1>2, <1>3 DEF NumberInv, LineOpen, LinesBefore, LinesNumbered

(* A character: what was read stays, and is free of NULs if all is. *)
LEMMA GetcNumber ==
  ASSUME NEW c \in Chars, NumberTypes, Getc(c)
  PROVE  /\ text' \in Seq(Chars) /\ Len(text') = Len(text) + 1 /\ Len(text) \in Nat
         /\ text'[Len(text) + 1] = c /\ \A i \in 1 .. Len(text) : text'[i] = text[i]
         /\ NulFree' => NulFree /\ c # "nul"
<1>1. /\ text' \in Seq(Chars) /\ Len(text') = Len(text) + 1 /\ Len(text) \in Nat
      /\ text'[Len(text) + 1] = c /\ \A i \in 1 .. Len(text) : text'[i] = text[i]
  BY DEF NumberTypes, Getc
<1> QED BY <1>1 DEF NulFree, Read

(* A line is written: its number, and all of it. *)
LEMMA Written ==
  ASSUME NEW s, WriteOut(s), LinesBefore(start), NEW n \in Nat,
         NEW t, \A i \in 1 .. n - 1 : t[i] = text[i], NEW a \in 1 .. n, a = start,
         start = 1 \/ text[start - 1] = "newline",
         \A i \in a .. n - 1 : text[i] # "newline"
  PROVE  /\ numbered' \in Seq(Nat)
         /\ \A i, j \in 1 .. Len(numbered') : i < j => numbered'[i] < numbered'[j]
         /\ {numbered'[i] : i \in 1 .. Len(numbered')}
              = {i \in 1 .. n : i = 1 \/ t[i - 1] = "newline"}
<1> DEFINE l == Len(numbered)
<1>1. numbered \in Seq(Nat) /\ l \in Nat /\ numbered' = Append(numbered, a)
  BY DEF LinesBefore, WriteOut
<1>2. /\ numbered' \in Seq(Nat) /\ Len(numbered') = l + 1
      /\ numbered'[l + 1] = a /\ \A i \in 1 .. l : numbered'[i] = numbered[i]
  BY <1>1
<1>3. \A i \in 1 .. l : numbered[i] \in 1 .. a - 1
  BY DEF LinesBefore
<1>4. \A i, j \in 1 .. l + 1 : i < j => numbered'[i] < numbered'[j]
  BY <1>1, <1>2, <1>3 DEF LinesBefore
<1> HIDE DEF l
<1>5. {numbered'[i] : i \in 1 .. l + 1} = {numbered[i] : i \in 1 .. l} \cup {a}
  <2>1. 1 .. l + 1 = (1 .. l) \cup {l + 1}
    BY <1>1
  <2> QED BY <1>2, <2>1
<1>6. {i \in 1 .. n : i = 1 \/ t[i - 1] = "newline"}
        = {i \in 1 .. a - 1 : i = 1 \/ text[i - 1] = "newline"} \cup {a}
  <2>1. ASSUME NEW i \in 1 .. n, i > a PROVE ~ (i = 1 \/ t[i - 1] = "newline")
    BY <2>1
  <2>2. ASSUME NEW i \in 1 .. n, i <= a, i # 1 PROVE t[i - 1] = text[i - 1]
    BY <2>2
  <2>3. a = 1 \/ t[a - 1] = "newline"
    BY <2>2
  <2> QED BY <2>1, <2>2, <2>3
<1>7. {numbered[i] : i \in 1 .. l} = {i \in 1 .. a - 1 : i = 1 \/ text[i - 1] = "newline"}
  BY DEF LinesBefore, l
<1> QED BY <1>2, <1>4, <1>5, <1>6, <1>7

LEMMA CollectNumbers ==
  ASSUME NumberInv, NEW c \in Chars, Collect(c)
  PROVE  NumberInv'
<1>1. /\ prog = "number" /\ prog' = prog /\ state = "running" /\ state' = state /\ c # "newline"
      /\ Getc(c) /\ UNCHANGED <<start, numbered, out>> /\ NumberTypes
  BY DEF Collect, Getc, numberVars, NumberInv
<1>2. NumberTypes'
  BY <1>1, GetcNumber DEF NumberTypes
<1>3. ASSUME NulFree' PROVE LineOpen' /\ LinesBefore(start)' /\ out' = [i \in 1 .. start' - 1 |-> i]
  <2>1. NulFree /\ LineOpen /\ LinesBefore(start) /\ out = [i \in 1 .. start - 1 |-> i]
    BY <1>1, <1>3, GetcNumber DEF NumberInv
  <2>2. LineOpen'
    BY <1>1, <2>1, GetcNumber DEF LineOpen
  <2>3. start - 1 \in Nat /\ start - 1 <= Len(text)
    BY <1>1, <2>1, GetcNumber DEF LineOpen
  <2>4. \A i \in 1 .. start - 1 : i = 1 \/ text'[i - 1] = text[i - 1]
    BY <1>1, <2>3, GetcNumber
  <2>5. LinesBefore(start)'
    <3>1. {i \in 1 .. start - 1 : i = 1 \/ text'[i - 1] = "newline"}
            = {i \in 1 .. start - 1 : i = 1 \/ text[i - 1] = "newline"}
      BY <2>4
    <3> QED BY <1>1, <2>1, <3>1 DEF LinesBefore
  <2> QED BY <1>1, <2>1, <2>2, <2>5
<1> QED BY <1>1, <1>2, <1>3 DEF NumberInv, LinesNumbered

LEMMA LineEndNumbers ==
  ASSUME NumberInv, NEW c \in Chars, LineEnds(c)
  PROVE  NumberInv'
<1> DEFINE n == Len(text) + 1
           s == CString(Str(Here), text')
<1>1. /\ prog = "number" /\ prog' = prog /\ state = "running" /\ state' = state /\ c = "newline"
      /\ Getc(c) /\ WriteOut(s) /\ start' = n + 1 /\ NumberTypes
  BY DEF LineEnds, Getc, Here, NumberInv
<1>2. /\ text' \in Seq(Chars) /\ Len(text') = n /\ n \in Nat /\ n - 1 = Len(text)
      /\ text'[n] = "newline" /\ \A i \in 1 .. n - 1 : text'[i] = text[i]
  BY <1>1, GetcNumber
<1> HIDE DEF n
<1>3. ASSUME NulFree'
      PROVE  /\ LineOpen' /\ LinesBefore(start)' /\ out' = [i \in 1 .. start' - 1 |-> i]
  <2>1. LineOpen /\ LinesBefore(start) /\ out = [i \in 1 .. start - 1 |-> i]
    BY <1>1, <1>3, GetcNumber DEF NumberInv
  <2>2. start \in 1 .. n /\ start \in 1 .. n + 1
    BY <1>2, <2>1 DEF LineOpen
  <2>10. /\ Str(n) \in Seq(Nat)
         /\ \A k \in 1 .. Len(Str(n)) : Str(n)[k] \in start .. n
         /\ [i \in 1 .. start - 1 |-> i] \o Str(n) = [i \in 1 .. n |-> i]
    BY <1>2, <2>2, StrIs
  <2>3. s = Str(n)
    <3>1. \A i \in 1 .. n : text'[i] # "nul"
      BY <1>2, <1>3 DEF NulFree, Read
    <3>2. /\ Str(n) \in Seq(Nat)
          /\ \A k \in 1 .. Len(Str(n)) : Str(n)[k] \in 1 .. n
      BY <1>2, <2>2, <2>10
    <3> QED BY <3>1, <3>2, WholeString DEF Here, n
  <2>4. out' = [i \in 1 .. n |-> i]
    BY <1>1, <1>2, <2>1, <2>2, <2>3, <2>10 DEF WriteOut
  <2>5. LineOpen'
    BY <1>1, <1>2 DEF LineOpen
  <2>6. \A i \in start .. n - 1 : text[i] # "newline"
    BY <1>2, <2>1 DEF LineOpen
  <2>7. /\ numbered' \in Seq(Nat)
        /\ \A i, j \in 1 .. Len(numbered') : i < j => numbered'[i] < numbered'[j]
        /\ {numbered'[i] : i \in 1 .. Len(numbered')}
             = {i \in 1 .. n : i = 1 \/ text'[i - 1] = "newline"}
    BY <1>1, <1>2, <2>1, <2>2, <2>6, Written DEF LineOpen
  <2>8. start' - 1 = n
    BY <1>1, <1>2
  <2>9. LinesBefore(start)'
    BY <2>7, <2>8 DEF LinesBefore
  <2> QED BY <2>4, <2>5, <2>7, <2>8, <2>9
<1>4. NumberTypes'
  BY <1>1, <1>2 DEF NumberTypes
<1> QED BY <1>1, <1>3, <1>4 DEF NumberInv, LinesNumbered

LEMMA NumberEndsNumbers ==
  ASSUME NumberInv, NumberEnds
  PROVE  NumberInv'
<1> DEFINE n == Len(text)
<1>1. /\ prog = "number" /\ prog' = prog /\ state = "running" /\ state' = "done"
      /\ text' = text /\ NumberTypes /\ n \in Nat /\ text \in Seq(Chars)
      /\ \/ CString(Rest, text) # <<>> /\ WriteOut(Append(Rest, 0))
         \/ CString(Rest, text) = <<>> /\ UNCHANGED <<out, numbered>>
  BY DEF NumberEnds, Eof, NumberInv, NumberTypes
<1>2. Read = 1 .. n /\ Read' = 1 .. n
  BY <1>1 DEF Read
<1> HIDE DEF n
<1>3. ASSUME NulFree
      PROVE  /\ out' = [i \in 1 .. n |-> i]
                         \o (IF n = 0 \/ text[n] = "newline" THEN <<>> ELSE <<0>>)
             /\ \A i, j \in 1 .. Len(numbered') : i < j => numbered'[i] < numbered'[j]
             /\ {numbered'[i] : i \in 1 .. Len(numbered')}
                  = {i \in 1 .. n : i = 1 \/ text[i - 1] = "newline"}
  <2>1. LineOpen /\ LinesBefore(start) /\ out = [i \in 1 .. start - 1 |-> i]
    BY <1>1, <1>3 DEF NumberInv
  <2>2. /\ start \in 1 .. n + 1 /\ \A i \in start .. n : text[i] # "newline"
        /\ start = 1 \/ text[start - 1] = "newline"
    BY <2>1 DEF LineOpen, n
  <2>3. /\ Rest \in Seq(Nat) /\ Len(Rest) = n + 1 - start
        /\ \A k \in 1 .. Len(Rest) : Rest[k] \in start .. n
        /\ [i \in 1 .. start - 1 |-> i] \o Rest = [i \in 1 .. n |-> i]
    BY <1>1, <2>2, StrIs DEF Rest, n
  <2>4. CString(Rest, text) = Rest
    <3>1. \A k \in 1 .. Len(Rest) : text[Rest[k]] # "nul"
      BY <1>2, <1>3, <2>2, <2>3 DEF NulFree
    <3> QED BY <2>3, <3>1, WholeString
  <2>5. CASE start <= n
    <3>1. Rest # <<>>
      BY <1>1, <2>2, <2>3, <2>5
    <3>2. WriteOut(Append(Rest, 0))
      BY <1>1, <2>4, <3>1
    <3>3. n # 0 /\ text[n] # "newline" /\ start \in 1 .. n
      BY <1>1, <2>2, <2>5
    <3>4. out \in Seq(Nat)
      BY <1>1, <2>1, <2>2
    <3>5. out \o Append(Rest, 0) = (out \o Rest) \o <<0>>
      BY <2>3, <3>4
    <3>6. out' = [i \in 1 .. n |-> i] \o <<0>>
      BY <2>1, <2>3, <3>2, <3>5 DEF WriteOut
    <3>7. \A i \in start .. n - 1 : text[i] # "newline"
      BY <1>1, <2>2
    <3>8. /\ \A i, j \in 1 .. Len(numbered') : i < j => numbered'[i] < numbered'[j]
          /\ {numbered'[i] : i \in 1 .. Len(numbered')}
               = {i \in 1 .. n : i = 1 \/ text[i - 1] = "newline"}
      <4>1. \A i \in 1 .. n - 1 : text[i] = text[i]
        OBVIOUS
      <4>2. start \in 1 .. n /\ (start = 1 \/ text[start - 1] = "newline") /\ LinesBefore(start)
        BY <2>1, <2>2, <3>3
      <4> QED BY <1>1, <3>2, <3>7, <4>1, <4>2, Written
    <3> QED BY <3>3, <3>6, <3>8
  <2>6. CASE start = n + 1
    <3>1. Rest = <<>>
      BY <1>1, <2>3, <2>6
    <3>2. UNCHANGED <<out, numbered>>
      BY <1>1, <2>4, <3>1
    <3>3. n = 0 \/ text[n] = "newline"
      BY <1>1, <2>2, <2>6
    <3>4. start - 1 = n
      BY <1>1, <2>6
    <3>5. [i \in 1 .. n |-> i] \o <<>> = [i \in 1 .. n |-> i]
      BY <1>1
    <3>6. out' = [i \in 1 .. n |-> i]
      BY <2>1, <3>2, <3>4
    <3>7. /\ \A i, j \in 1 .. Len(numbered) : i < j => numbered[i] < numbered[j]
          /\ {numbered[i] : i \in 1 .. Len(numbered)}
               = {i \in 1 .. n : i = 1 \/ text[i - 1] = "newline"}
      BY <2>1, <3>4 DEF LinesBefore
    <3>8. (IF n = 0 \/ text[n] = "newline" THEN <<>> ELSE <<0>>) = <<>>
      BY <3>3
    <3>9. out' = [i \in 1 .. n |-> i] \o (IF n = 0 \/ text[n] = "newline" THEN <<>> ELSE <<0>>)
      BY <3>5, <3>6, <3>8
    <3> QED BY <3>2, <3>7, <3>9
  <2> QED BY <1>1, <2>2, <2>5, <2>6
<1>4. NulFree' => NulFree
  BY <1>1, <1>2 DEF NulFree
<1>5. LinesNumbered'
  BY <1>1, <1>2, <1>3, <1>4 DEF LinesNumbered, n
<1> QED BY <1>1, <1>5 DEF NumberInv, NumberTypes

(* number keeps its input as it is, and numbers every line of it once, in  *)
(* order, also a last one that has no newline.                             *)
THEOREM EveryLineNumbered == FilterSpec => []LinesNumbered
<1>1. ASSUME NumberInv, [FilterNext]_filterVars PROVE NumberInv'
  <2>1. ASSUME NEW c \in Chars, Bracket(c) \/ Inside(c) \/ Outside(c) \/ Overrun(c) PROVE NumberInv'
    <3>1. NumberTypes /\ Getc(c) /\ prog # "number" /\ prog' = prog /\ state' \in {"running", "overrun"}
      BY <1>1, <2>1 DEF Bracket, Inside, Outside, Overrun, Getc, Remover, NumberInv
    <3>2. NumberTypes'
      BY <3>1, GetcNumber DEF NumberTypes
    <3> QED BY <3>1, <3>2 DEF NumberInv, LinesNumbered
  <2>2. ASSUME NEW c \in Chars, Collect(c) PROVE NumberInv'
    BY <1>1, <2>2, CollectNumbers
  <2>3. ASSUME NEW c \in Chars, LineEnds(c) PROVE NumberInv'
    BY <1>1, <2>3, LineEndNumbers
  <2>4. CASE RemoverEnds
    BY <1>1, <2>4 DEF RemoverEnds, Eof, Remover, NumberInv, NumberTypes, LinesNumbered
  <2>5. CASE NumberEnds
    BY <1>1, <2>5, NumberEndsNumbers
  <2>6. CASE UNCHANGED filterVars
    <3>1. UNCHANGED <<prog, text, state, start, numbered, out>>
      BY <2>6 DEF filterVars, numberVars
    <3>2. NumberTypes' /\ LinesNumbered'
      <4>1. NumberTypes'
        BY <1>1, <3>1 DEF NumberInv, NumberTypes
      <4>2. LinesNumbered <=> LinesNumbered'
        <5>1. Read' = Read /\ (NulFree' <=> NulFree)
          BY <3>1 DEF NulFree, Read
        <5> DEFINE newline == IF Len(text) = 0 \/ text[Len(text)] = "newline" THEN <<>> ELSE <<0>>
                   whole == [i \in Read |-> i] \o newline
                   marks == {i \in Read : i = 1 \/ text[i - 1] = "newline"}
                   made == {numbered[n] : n \in 1 .. Len(numbered)}
                   sorted == \A m, n \in 1 .. Len(numbered) : m < n => numbered[m] < numbered[n]
        <5>2. whole' = whole /\ marks' = marks
          BY <3>1, <5>1
        <5>3. made' = made /\ (sorted' <=> sorted)
          BY <3>1
        <5>4. LinesNumbered <=>
                (prog = "number" /\ state # "running" /\ NulFree => out = whole /\ sorted /\ made = marks)
          BY DEF LinesNumbered
        <5>5. LinesNumbered' <=>
                (prog' = "number" /\ state' # "running" /\ NulFree' => out' = whole' /\ sorted' /\ made' = marks')
          BY DEF LinesNumbered
        <5> HIDE DEF whole, marks, made, sorted
        <5> QED BY <3>1, <5>1, <5>2, <5>3, <5>4, <5>5
      <4> QED BY <1>1, <4>1, <4>2 DEF NumberInv
    <3>3. (NulFree' => NulFree) /\ (LineOpen => LineOpen') /\ (LinesBefore(start) => LinesBefore(start)')
      BY <3>1 DEF NulFree, Read, LineOpen, LinesBefore
    <3> QED BY <1>1, <3>1, <3>2, <3>3 DEF NumberInv
  <2> QED BY <1>1, <2>1, <2>2, <2>3, <2>4, <2>5, <2>6 DEF FilterNext
<1>2. NumberInv => LinesNumbered
  BY DEF NumberInv
<1> QED BY <1>1, <1>2, NumberInit, PTL DEF FilterSpec

-----------------------------------------------------------------------------
(* The messages of removetag0.                                             *)

Messages == [at : Nat, tag : Seq(Nat)]

TagTypes ==
  /\ tag \in Seq(Nat) /\ errTag \in BOOLEAN
  /\ errors \in Seq(Messages)

Increasing(s) == \A k, l \in 1 .. Len(s) : k < l => s[k] < s[l]
Elements(s) == {s[k] : k \in 1 .. Len(s)}
Shows(r, i) ==
  Elements(r) = {j \in TagsBefore(i) : \A k \in TagsBefore(i) : k <= j => text[k] # "nul"}
Illegal(i) == \E j \in TagsBefore(i) : text[j] # "a"

(* TagMsg holds the tags that the next text will end, and errTag is what   *)
(* is to be said of them.                                                  *)
TagKept ==
  /\ Len(tag) <= TagSize /\ Increasing(tag)
  /\ Elements(tag) = TagsBefore(Here)
  /\ errTag <=> Illegal(Here)

(* IllegalTold, a message at a time. *)
Told ==
  prog = "removetag0" /\ state # "overrun" =>
    /\ Len(tag) <= TagSize
    /\ \A i : (i \in Read /\ InText(i) /\ Illegal(i)) <=> \E n \in 1 .. Len(errors) : i = errors[n].at
    /\ \A n \in 1 .. Len(errors) : \A i, r :
         i = errors[n].at /\ r = errors[n].tag => Shows(r, i)

TagInv ==
  /\ CopyInv /\ Told
  /\ prog = "removetag0" /\ state # "overrun" => TagTypes /\ TagKept

LEMMA LeastNumber ==
  ASSUME NEW S \in SUBSET Nat, S # {}
  PROVE  \E x \in S : \A y \in S : x <= y
<1>1. \E R : IsWellFoundedOn(R, Nat) /\ \A x, y \in Nat : <<y, x>> \in R <=> y < x
  <2>1. IsWellFoundedOn(OpToRel(<,Nat), Nat)
    BY NatLessThanWellFounded
  <2>2. \A x, y \in Nat : <<y, x>> \in OpToRel(<,Nat) <=> y < x
    BY DEF OpToRel
  <2> QED BY <2>1, <2>2, Zenon
<1>2. PICK R : IsWellFoundedOn(R, Nat) /\ \A x, y \in Nat : <<y, x>> \in R <=> y < x
  BY <1>1
<1>3. PICK x \in S : \A y \in S : ~ (<<y, x>> \in R)
  BY <1>2, WFMin
<1>4. \A y \in S : x <= y
  <2> TAKE y \in S
  <2>1. x \in Nat /\ y \in Nat
    OBVIOUS
  <2>2. <<y, x>> \in R <=> y < x
    BY <1>2, <2>1, Zenon
  <2>3. ~ (y < x)
    BY <1>3, <2>2, Zenon
  <2> QED BY <2>1, <2>3
<1> QED BY <1>4

(* "%s" prints what comes before the first NUL. *)
LEMMA StringCut ==
  ASSUME NEW s \in Seq(Nat), NEW t, Increasing(s)
  PROVE  /\ CString(s, t) \in Seq(Nat)
         /\ Elements(CString(s, t))
              = {j \in Elements(s) : \A k \in Elements(s) : k <= j => t[k] # "nul"}
<1> DEFINE Ends(n) == (\A k \in 1 .. n : t[s[k]] # "nul") /\ (n = Len(s) \/ t[s[n + 1]] = "nul")
           nuls == {k \in 1 .. Len(s) : t[s[k]] = "nul"}
           m == CHOOSE n \in 0 .. Len(s) : Ends(n)
<1>1. \E n \in 0 .. Len(s) : Ends(n)
  <2>1. CASE nuls = {}
    BY <2>1
  <2>2. CASE nuls # {}
    <3>1. PICK k \in nuls : \A l \in nuls : k <= l
      <4>1. nuls \in SUBSET Nat
        OBVIOUS
      <4> QED BY <2>2, <4>1, LeastNumber
    <3>2. k - 1 \in 0 .. Len(s) /\ (k - 1) + 1 = k /\ t[s[k]] = "nul"
      OBVIOUS
    <3>3. \A l \in 1 .. k - 1 : t[s[l]] # "nul"
      BY <3>1
    <3>4. Ends(k - 1)
      BY <3>2, <3>3
    <3> QED BY <3>2, <3>4
  <2> QED BY <2>1, <2>2
<1>2. m \in 0 .. Len(s) /\ Ends(m)
  BY <1>1
<1>3. CString(s, t) = SubSeq(s, 1, m)
  BY DEF CString
<1> HIDE DEF m
<1>4. /\ SubSeq(s, 1, m) \in Seq(Nat) /\ Len(SubSeq(s, 1, m)) = m
      /\ \A k \in 1 .. m : SubSeq(s, 1, m)[k] = s[k]
  BY <1>2
<1>5. Elements(SubSeq(s, 1, m)) = {s[k] : k \in 1 .. m}
  BY <1>4 DEF Elements
<1>6. ASSUME NEW k \in 1 .. m
      PROVE  k \in 1 .. Len(s) /\ \A l \in 1 .. Len(s) : s[l] <= s[k] => t[s[l]] # "nul"
  <2>1. k \in 1 .. Len(s)
    BY <1>2
  <2>2. ASSUME NEW l \in 1 .. Len(s), s[l] <= s[k] PROVE t[s[l]] # "nul"
    <3>1. ~ (k < l)
      BY <2>1, <2>2 DEF Increasing
    <3>2. l \in 1 .. m
      BY <1>2, <3>1
    <3> QED BY <1>2, <3>2
  <2> QED BY <2>1, <2>2
<1>7. ASSUME NEW k \in 1 .. Len(s), k \notin 1 .. m
      PROVE  \E l \in 1 .. Len(s) : s[l] <= s[k] /\ t[s[l]] = "nul"
  <2>1. m + 1 \in 1 .. Len(s) /\ t[s[m + 1]] = "nul" /\ m + 1 <= k
    BY <1>2, <1>7
  <2>2. s[m + 1] <= s[k]
    BY <2>1 DEF Increasing
  <2> QED BY <2>1, <2>2
<1>8. \A j : j \in Elements(s) <=> \E k \in 1 .. Len(s) : j = s[k]
  BY DEF Elements
<1>9. ASSUME NEW j PROVE (j \in {s[k] : k \in 1 .. m}) <=>
                          /\ j \in Elements(s)
                          /\ \A k \in Elements(s) : k <= j => t[k] # "nul"
  <2>1. CASE j \in Elements(s)
    <3>1. PICK k \in 1 .. Len(s) : j = s[k]
      BY <1>8, <2>1
    <3>2. CASE k \in 1 .. m
      BY <1>6, <1>8, <3>1, <3>2
    <3>3. CASE k \notin 1 .. m
      <4>1. PICK l \in 1 .. Len(s) : s[l] <= s[k] /\ t[s[l]] = "nul"
        BY <1>7, <3>3
      <4>2. j \notin {s[i] : i \in 1 .. m}
        BY <1>6, <3>1, <4>1
      <4> QED BY <1>8, <3>1, <4>1, <4>2
    <3> QED BY <3>2, <3>3
  <2>2. CASE j \notin Elements(s)
    BY <1>6, <1>8, <2>2
  <2> QED BY <2>1, <2>2
<1> QED BY <1>3, <1>4, <1>5, <1>9

(* Another character leaves the tags before the earlier ones. *)
LEMMA TagsKept ==
  ASSUME NEW c \in Chars, CopyTypes, Getc(c)
  PROVE  \A i \in 1 .. Len(text) + 1 : TagsBefore(i)' = TagsBefore(i) /\ (Illegal(i)' <=> Illegal(i))
<1> TAKE i \in 1 .. Len(text) + 1
<1>1. \A k \in 1 .. i - 1 : text'[k] = text[k] /\ (InText(k)' <=> InText(k)) /\ k \in Read
  BY GetcKeeps, InTextKept DEF Read
<1>2. i - 1 \in Nat /\ \A j \in 1 .. i - 1 : \A k \in j .. i - 1 : k \in 1 .. i - 1
  BY GetcKeeps
<1>3. TagsBefore(i)' = TagsBefore(i)
  BY <1>1, <1>2 DEF TagsBefore
<1>4. \A j \in TagsBefore(i) : text'[j] = text[j]
  BY <1>1 DEF TagsBefore
<1> QED BY <1>3, <1>4 DEF Illegal

LEMMA TagsNew ==
  ASSUME NEW c \in Chars, CopyTypes, Getc(c), NEW h, h = Here
  PROVE  /\ InText(h)' => TagsBefore(h + 1)' = {}
         /\ ~ InText(h)' =>
              TagsBefore(h + 1)' = TagsBefore(h) \cup (IF c \in Plain THEN {h} ELSE {})
<1>1. /\ h \in Nat \ {0} /\ h = Len(text) + 1 /\ text'[h] = c /\ Len(text) \in Nat
      /\ 1 .. (h + 1) - 1 = (1 .. h - 1) \cup {h}
  BY GetcKeeps DEF Here
<1>2. TagsBefore(h)' = TagsBefore(h)
  BY <1>1, TagsKept
<1>3. TagsBefore(h + 1)' = {j \in 1 .. h : text'[j] \in Plain /\ \A k \in j .. h : ~ InText(k)'}
  BY <1>1 DEF TagsBefore
<1>4. TagsBefore(h)' = {j \in 1 .. h - 1 : text'[j] \in Plain /\ \A k \in j .. h - 1 : ~ InText(k)'}
  BY <1>1 DEF TagsBefore
<1>5. \A j \in 1 .. h : j .. h = (j .. h - 1) \cup {h}
  BY <1>1
<1>6. CASE InText(h)'
  BY <1>1, <1>3, <1>5, <1>6
<1>7. CASE ~ InText(h)'
  BY <1>1, <1>2, <1>3, <1>4, <1>5, <1>7
<1> QED BY <1>6, <1>7

LEMMA TagInit == FilterInit => TagInv
<1> SUFFICES ASSUME FilterInit PROVE TagInv
  OBVIOUS
<1>1. text = <<>> /\ tag = <<>> /\ errTag = FALSE /\ errors = <<>> /\ CopyInv
  BY InitCopies DEF FilterInit
<1>2. Here = 1 /\ TagsBefore(1) = {} /\ Read = {}
  BY <1>1 DEF Here, TagsBefore, Read
<1>3. TagTypes
  <2>1. \A X : <<>> \in Seq(X)
    OBVIOUS
  <2> QED BY <1>1, <2>1 DEF TagTypes
<1>4. TagKept
  BY <1>1, <1>2, FilterAssumption DEF TagKept, Increasing, Elements, Illegal
<1>5. Told
  BY <1>1, <1>2, FilterAssumption DEF Told
<1> QED BY <1>1, <1>3, <1>4, <1>5 DEF TagInv

LEMMA ToldMeans ==
  ASSUME Told PROVE IllegalTold
<1> SUFFICES ASSUME prog = "removetag0", state # "overrun" PROVE IllegalTold
  BY DEF IllegalTold
<1>1. {errors[n].at : n \in 1 .. Len(errors)} = {i \in Read : InText(i) /\ \E j \in TagsBefore(i) : text[j] # "a"}
  BY DEF Told, Illegal
<1>2. \A n \in 1 .. Len(errors) : Shows(errors[n].tag, errors[n].at)
  BY DEF Told
<1>3. Len(tag) <= TagSize
  BY DEF Told
<1> QED BY <1>1, <1>2, <1>3 DEF IllegalTold, Shows, Elements

LEMMA ToldKept ==
  ASSUME NEW c \in Chars, CopyTypes, Getc(c), TagTypes, Told,
         prog = "removetag0", state # "overrun"
  PROVE  /\ \A i \in Read : (InText(i)' /\ Illegal(i)') <=> \E n \in 1 .. Len(errors) : i = errors[n].at
         /\ \A n \in 1 .. Len(errors) : \A i, r :
              i = errors[n].at /\ r = errors[n].tag => i \in Read /\ Shows(r, i)'
<1>1. \A i \in Read : /\ InText(i)' <=> InText(i)
                      /\ TagsBefore(i)' = TagsBefore(i) /\ (Illegal(i)' <=> Illegal(i))
  BY InTextKept, TagsKept, GetcKeeps DEF Read
<1>2. \A i \in Read : \A j \in TagsBefore(i) : text'[j] = text[j]
  <2> SUFFICES ASSUME NEW i \in Read, NEW j \in TagsBefore(i) PROVE text'[j] = text[j]
    OBVIOUS
  <2>1. j \in Read
    BY GetcKeeps DEF TagsBefore, Read
  <2> QED BY <2>1, GetcKeeps
<1>3. \A i \in Read : \A r : Shows(r, i) => Shows(r, i)'
  BY <1>1, <1>2 DEF Shows
<1> QED BY <1>1, <1>3 DEF Told

LEMMA OutsideTells ==
  ASSUME TagInv, NEW c \in Chars, Outside(c), prog = "removetag0"
  PROVE  TagTypes' /\ TagKept' /\ Told'
<1> DEFINE e == [at |-> Here, tag |-> CString(tag, text)]
<1>1. PICK h : h = Here
  OBVIOUS
<1>2. /\ CopyInv /\ CopyTypes /\ TagTypes /\ TagKept /\ Told /\ Getc(c) /\ c \in Plain
      /\ state = "running" /\ state' = "running" /\ prog' = prog /\ inTag = FALSE
      /\ errTag' = FALSE /\ tag' = <<>> /\ errors' = IF errTag THEN Append(errors, e) ELSE errors
  BY DEF TagInv, CopyInv, Outside, Getc, Reported
<1>3. ~ Unclosed
  BY <1>2 DEF CopyInv, Remover
<1>4. InText(h)'
  BY <1>1, <1>2, <1>3, InTextNew
<1>5. /\ h \in Nat /\ h = Len(text) + 1 /\ Here' = h + 1 /\ Read' = Read \cup {h} /\ h \notin Read
      /\ \A i \in Read : text'[i] = text[i]
  BY <1>1, <1>2, GetcKeeps DEF Here, Read
<1>6. TagsBefore(h + 1)' = {} /\ TagsBefore(h)' = TagsBefore(h) /\ (Illegal(h)' <=> Illegal(h))
  BY <1>1, <1>2, <1>4, <1>5, TagsNew, TagsKept
<1>7. TagKept'
  <2>1. TagsBefore(Here)' = {}
    BY <1>5, <1>6 DEF TagsBefore
  <2> QED BY <1>2, <2>1, FilterAssumption DEF TagKept, Illegal, Increasing, Elements
<1>8. /\ CString(tag, text) \in Seq(Nat)
      /\ \A r : r = CString(tag, text) => Shows(r, h)'
  <2>1. tag \in Seq(Nat) /\ Increasing(tag) /\ Elements(tag) = TagsBefore(h)
    BY <1>1, <1>2 DEF TagTypes, TagKept
  <2>2. /\ CString(tag, text) \in Seq(Nat)
        /\ Elements(CString(tag, text))
             = {j \in TagsBefore(h) : \A k \in TagsBefore(h) : k <= j => text[k] # "nul"}
    BY <2>1, StringCut
  <2>3. \A k \in TagsBefore(h) : text'[k] = text[k]
    BY <1>5 DEF TagsBefore, Read
  <2> QED BY <1>6, <2>2, <2>3 DEF Shows
<1>9. errors \in Seq(Messages) /\ e \in Messages /\ e.at = h
      /\ e.tag = CString(tag, text)
  BY <1>1, <1>2, <1>5, <1>8 DEF TagTypes, Messages
<1> HIDE DEF e
<1>10. TagTypes'
  <2>1. errors' \in Seq(Messages)
    BY <1>2, <1>9
  <2>2. tag' \in Seq(Nat)
    BY <1>2
  <2> QED BY <1>2, <2>1, <2>2 DEF TagTypes
<1>11. errTag <=> Illegal(h)'
  BY <1>1, <1>2, <1>6 DEF TagKept
<1>12. Told'
  <2>1. Len(tag') <= TagSize
    BY <1>7 DEF TagKept
  <2>2. CASE ~ errTag
    <3>1. errors' = errors
      BY <1>2, <2>2
    <3>2. \A i : (i \in Read' /\ InText(i)' /\ Illegal(i)') <=> \E n \in 1 .. Len(errors) : i = errors[n].at
      BY <1>2, <1>5, <1>11, <2>2, ToldKept
    <3> QED BY <1>2, <2>1, <3>1, <3>2, ToldKept DEF Told
  <2>3. CASE errTag
    <3> DEFINE l == Len(errors)
    <3>1. /\ l \in Nat /\ Len(errors') = l + 1 /\ errors'[l + 1] = e
          /\ \A n \in 1 .. l : errors'[n] = errors[n]
          /\ 1 .. l + 1 = (1 .. l) \cup {l + 1}
      BY <1>2, <1>9, <2>3
    <3> HIDE DEF l
    <3>2. \A i : (i \in Read' /\ InText(i)' /\ Illegal(i)') <=> (\E n \in 1 .. l : i = errors[n].at) \/ i = h
      BY <1>2, <1>4, <1>5, <1>11, <2>3, ToldKept DEF l
    <3>3. \A i : (i \in Read' /\ InText(i)' /\ Illegal(i)') <=> \E n \in 1 .. Len(errors') : i = errors'[n].at
      <4>1. \A i : (\E n \in 1 .. Len(errors') : i = errors'[n].at) <=> (\E n \in 1 .. l : i = errors[n].at) \/ i = h
        BY <1>9, <3>1
      <4> TAKE i
      <4>2. (i \in Read' /\ InText(i)' /\ Illegal(i)') <=> (\E n \in 1 .. l : i = errors[n].at) \/ i = h
        BY <3>2
      <4>3. (\E n \in 1 .. Len(errors') : i = errors'[n].at) <=> (\E n \in 1 .. l : i = errors[n].at) \/ i = h
        BY <4>1
      <4> QED BY <4>2, <4>3
    <3>4. \A n \in 1 .. Len(errors') : \A i, r :
            i = errors'[n].at /\ r = errors'[n].tag => Shows(r, i)'
      BY <1>2, <1>8, <1>9, <3>1, ToldKept DEF l
    <3> QED BY <1>2, <2>1, <3>3, <3>4 DEF Told
  <2> QED BY <2>2, <2>3, <1>2 DEF TagTypes
<1> QED BY <1>7, <1>10, <1>12

(* The steps that tell of nothing. *)
LEMMA SilentTells ==
  ASSUME TagInv, NEW c \in Chars, Bracket(c) \/ Inside(c), prog = "removetag0"
  PROVE  TagTypes' /\ TagKept' /\ Told'
<1>1. PICK h : h = Here
  OBVIOUS
<1>2. /\ CopyInv /\ CopyTypes /\ TagTypes /\ TagKept /\ Told /\ Getc(c)
      /\ state = "running" /\ state' = "running" /\ prog' = prog /\ errors' = errors /\ Remover
  BY DEF TagInv, CopyInv, Bracket, Inside, Getc
<1>3. /\ h \in Nat /\ h = Len(text) + 1 /\ Here' = h + 1 /\ Read' = Read \cup {h} /\ h \notin Read
      /\ text'[h] = c
  BY <1>1, <1>2, GetcKeeps DEF Here, Read
<1>4. ~ InText(h)'
  BY <1>1, <1>2, InTextNew DEF Bracket, Inside, CopyInv
<1>5. TagsBefore(h + 1)' = TagsBefore(h) \cup (IF c \in Plain THEN {h} ELSE {})
  BY <1>1, <1>2, <1>4, TagsNew
<1>6. (\A j \in TagsBefore(h) : text'[j] = text[j] /\ j < h) /\ Elements(tag) = TagsBefore(h)
  BY <1>1, <1>2, <1>3, GetcKeeps DEF TagsBefore, Read, TagKept
<1>7. ASSUME Len(tag') <= TagSize, Increasing(tag'), Elements(tag') = TagsBefore(h + 1)',
             errTag' <=> \E j \in TagsBefore(h + 1)' : text'[j] # "a"
      PROVE  TagKept'
  <2>1. TagsBefore(Here)' = TagsBefore(h + 1)'
    BY <1>3 DEF TagsBefore
  <2> QED BY <1>7, <2>1 DEF TagKept, Illegal, Increasing, Elements
<1>8. ASSUME Bracket(c) PROVE TagTypes' /\ TagKept'
  <2>1. c \notin Plain /\ UNCHANGED <<errTag, tag>>
    BY <1>8 DEF Bracket
  <2>2. TagsBefore(h + 1)' = TagsBefore(h)
    BY <1>5, <2>1
  <2>3. errTag <=> \E j \in TagsBefore(h) : text'[j] # "a"
    BY <1>1, <1>2, <1>6 DEF TagKept, Illegal
  <2>4. TagKept'
    BY <1>2, <1>6, <1>7, <2>1, <2>2, <2>3 DEF TagKept
  <2> QED BY <1>2, <2>1, <2>4 DEF TagTypes
<1>11. ASSUME Inside(c) PROVE TagTypes' /\ TagKept'
  <2> DEFINE l == Len(tag)
  <2>1. /\ c \in Plain /\ tag' = Append(tag, h) /\ errTag' = (errTag \/ c # "a") /\ l < TagSize
    BY <1>1, <1>2, <1>11 DEF Inside, Fits
  <2>2. /\ tag \in Seq(Nat) /\ l \in Nat /\ tag' \in Seq(Nat) /\ Len(tag') = l + 1
        /\ tag'[l + 1] = h /\ \A k \in 1 .. l : tag'[k] = tag[k]
        /\ 1 .. l + 1 = (1 .. l) \cup {l + 1}
    BY <1>2, <1>3, <2>1 DEF TagTypes
  <2> HIDE DEF l
  <2>3. \A k \in 1 .. l : tag[k] < h
    BY <1>6 DEF Elements, l
  <2>4. Increasing(tag')
    <3>1. \A k, m \in 1 .. l : k < m => tag[k] < tag[m]
      BY <1>2 DEF TagKept, Increasing, l
    <3>2. \A k, m \in 1 .. l + 1 : k < m => k \in 1 .. l /\ (m \in 1 .. l \/ m = l + 1)
      BY <2>2
    <3>3. \A k, m \in 1 .. l + 1 : k < m => tag'[k] < tag'[m]
      BY <2>2, <2>3, <3>1, <3>2
    <3> QED BY <2>2, <3>3 DEF Increasing
  <2>5. Elements(tag') = TagsBefore(h + 1)'
    <3>1. Elements(tag) = {tag[k] : k \in 1 .. l} /\ Elements(tag') = {tag'[k] : k \in 1 .. l + 1}
      BY <2>2 DEF Elements, l
    <3>2. {tag'[k] : k \in 1 .. l + 1} = {tag[k] : k \in 1 .. l} \cup {h}
      BY <2>2
    <3>3. Elements(tag') = Elements(tag) \cup {h}
      BY <3>1, <3>2
    <3> QED BY <1>5, <1>6, <2>1, <3>3
  <2>6. errTag' <=> \E j \in TagsBefore(h + 1)' : text'[j] # "a"
    <3>1. errTag <=> \E j \in TagsBefore(h) : text'[j] # "a"
      BY <1>1, <1>2, <1>6 DEF TagKept, Illegal
    <3> QED BY <1>3, <1>5, <2>1, <3>1
  <2>7. Len(tag') <= TagSize
    BY <2>1, <2>2, FilterAssumption
  <2>8. errTag' \in BOOLEAN
    BY <2>1
  <2> QED BY <1>2, <1>7, <2>2, <2>4, <2>5, <2>6, <2>7, <2>8 DEF TagTypes
<1>9. TagTypes' /\ TagKept'
  BY <1>8, <1>11
<1>10. Told'
  <2>1. \A i : (i \in Read' /\ InText(i)' /\ Illegal(i)') <=> \E n \in 1 .. Len(errors) : i = errors[n].at
    BY <1>2, <1>3, <1>4, ToldKept
  <2>2. Len(tag') <= TagSize
    BY <1>9 DEF TagKept
  <2> QED BY <1>2, <2>1, <2>2, ToldKept DEF Told
<1> QED BY <1>9, <1>10

(* A message of removetag0 is due before a text if, and only if, a tag     *)
(* right before it has an illegal character, and it shows the text of      *)
(* these tags up to the first NUL, however the brackets follow each other. *)
THEOREM IllegalTagsTold == FilterSpec => []IllegalTold
<1>1. ASSUME TagInv, [FilterNext]_filterVars PROVE TagInv'
  <2>0. CopyInv'
    BY <1>1, CopyStep DEF TagInv
  <2>1. CASE prog' # "removetag0" \/ state' = "overrun"
    BY <2>0, <2>1 DEF TagInv, Told
  <2>2. ASSUME prog' = "removetag0", state' # "overrun" PROVE TagInv'
    <3>1. prog = "removetag0"
      BY <1>1, <2>2 DEF FilterNext, Bracket, Inside, Outside, Overrun, Collect, LineEnds, RemoverEnds,
                        NumberEnds, Getc, Eof, filterVars
    <3>2. ASSUME NEW c \in Chars, Bracket(c) \/ Inside(c) PROVE TagInv'
      BY <1>1, <2>0, <3>1, <3>2, SilentTells DEF TagInv
    <3>3. ASSUME NEW c \in Chars, Outside(c) PROVE TagInv'
      BY <1>1, <2>0, <3>1, <3>3, OutsideTells DEF TagInv
    <3>4. CASE RemoverEnds \/ UNCHANGED filterVars
      <4>1. UNCHANGED <<prog, text, tag, errTag, errors>> /\ state # "overrun"
        BY <2>2, <3>4 DEF RemoverEnds, Eof, tagVars, filterVars
      <4>2. TagTypes' /\ TagKept'
        <5>1. TagsBefore(Here)' = TagsBefore(Here)
          BY <4>1 DEF TagsBefore, Here, InText
        <5>2. Illegal(Here)' <=> Illegal(Here)
          BY <4>1, <5>1 DEF Illegal
        <5>3. TagTypes /\ TagKept
          BY <1>1, <3>1, <4>1 DEF TagInv
        <5>4. TagTypes'
          BY <4>1, <5>3 DEF TagTypes
        <5>5. TagKept'
          BY <4>1, <5>1, <5>2, <5>3 DEF TagKept, Increasing, Elements
        <5> QED BY <5>4, <5>5
      <4>3. Told'
        <5>1. \A i : /\ (i \in Read /\ InText(i) /\ Illegal(i)) <=> (i \in Read /\ InText(i) /\ Illegal(i))'
                     /\ \A r : Shows(r, i) <=> Shows(r, i)'
          BY <4>1 DEF Read, InText, Illegal, TagsBefore, Shows, Elements
        <5> QED BY <1>1, <3>1, <4>1, <5>1 DEF TagInv, Told
      <4> QED BY <2>0, <4>2, <4>3 DEF TagInv
    <3>5. ~ NumberEnds /\ \A c \in Chars : ~ Collect(c) /\ ~ LineEnds(c) /\ ~ Overrun(c)
      BY <2>2, <3>1 DEF NumberEnds, Collect, LineEnds, Overrun
    <3> QED BY <1>1, <3>2, <3>3, <3>4, <3>5 DEF FilterNext
  <2> QED BY <2>1, <2>2
<1>2. TagInv => IllegalTold
  BY ToldMeans DEF TagInv
<1> QED BY <1>1, <1>2, TagInit, PTL DEF FilterSpec

=============================================================================
