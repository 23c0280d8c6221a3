------------------------------ MODULE Filters ------------------------------
(***************************************************************************)
(* The filters users put behind pipes (commands/src): removetag,           *)
(* removetag0 and delayedremovetag copy what is outside of "<...>", number *)
(* counts lines.  Each reads its input a character at a time, into a char: *)
(* the byte 0xFF is taken for EOF.                                         *)
(*                                                                         *)
(* What is written is given by positions in the input, 0 standing for a    *)
(* newline the program adds.                                               *)
(***************************************************************************)
EXTENDS Integers, Sequences

CONSTANTS
  MaxLength,  \* bound: the characters read
  TagSize     \* 1024, the size of TagMsg in removetag0

ASSUME FilterAssumption == MaxLength \in Nat /\ TagSize \in Nat \ {0}

Programs == {"removetag", "removetag0", "delayedremovetag", "number"}

(* "a" is a letter or a slash, "1" any other character. *)
Chars == {"<", ">", "a", "1", "newline", "nul"}
Plain == Chars \ {"<", ">"}

VARIABLES
  prog, text, \* the program, and what it has read
  state,      \* "running", "done", or "overrun" (TagMsg)
  inTag, errTag,
  tag,        \* removetag0: TagMsg[0 .. iCount - 1]
  errors,     \* removetag0: the messages, [at, tag]
  start,      \* number: str holds what was read from here on
  numbered,   \* number: the characters a number was written in front of
  out         \* written to stdout

tagVars == <<inTag, errTag, tag, errors>>
numberVars == <<start, numbered>>
filterVars == <<prog, text, state, tagVars, numberVars, out>>

FilterInit ==
  /\ prog \in Programs /\ text = <<>> /\ state = "running"
  /\ inTag = FALSE /\ errTag = FALSE /\ tag = <<>> /\ errors = <<>>
  /\ start = 1 /\ numbered = <<>>
  /\ out = <<>>

Here == Len(text) + 1

Getc(c) ==
  /\ state = "running" /\ Len(text) < MaxLength
  /\ text' = Append(text, c)
  /\ UNCHANGED prog

(* The end of the input, or a byte 0xFF. *)
Eof == state = "running" /\ state' = "done" /\ UNCHANGED <<prog, text>>

(* What "%s" prints: up to the first NUL. *)
CString(s, t) ==
  SubSeq(s, 1, CHOOSE n \in 0 .. Len(s) :
                 /\ \A k \in 1 .. n : t[s[k]] # "nul"
                 /\ n = Len(s) \/ t[s[n + 1]] = "nul")

-----------------------------------------------------------------------------
(* The tag removers.                                                       *)

Remover == prog # "number"

(* Seeded fault: a "<" inside of a tag ends it. *)
BugInTag(c) == c = "<" /\ ~inTag

InTag(c) == c = "<"

Bracket(c) ==
  /\ Remover /\ c \notin Plain /\ Getc(c)
  /\ inTag' = InTag(c)
  /\ UNCHANGED <<state, errTag, tag, errors, numberVars, out>>

Fits == prog = "removetag0" => Len(tag) < TagSize

(* removetag0 keeps the text of a tag; isalpha(c) or '/' is legal.         *)
Inside(c) ==
  /\ Remover /\ inTag /\ c \in Plain /\ Fits /\ Getc(c)
  /\ \/ prog # "removetag0" /\ UNCHANGED <<errTag, tag>>
     \/ prog = "removetag0" /\ tag' = Append(tag, Here) /\ errTag' = (errTag \/ c # "a")
  /\ UNCHANGED <<state, inTag, errors, numberVars, out>>

(* Seeded fault: errTag is not reset. *)
BugReported == errTag

Reported == FALSE

(* A message is due once the text is outside of tags again.                *)
Outside(c) ==
  /\ Remover /\ ~inTag /\ c \in Plain /\ Fits /\ Getc(c)
  /\ errors' = IF errTag THEN Append(errors, [at |-> Here, tag |-> CString(tag, text)])
                         ELSE errors
  /\ errTag' = Reported /\ tag' = <<>>
  /\ out' = Append(out, Here)
  /\ UNCHANGED <<state, inTag, numberVars>>

(* The character, or the zero byte after the last, is put behind the end   *)
(* of TagMsg; what the program does from there on is undefined.            *)
Overrun(c) ==
  /\ Remover /\ c \in Plain /\ ~Fits /\ Getc(c)
  /\ state' = "overrun"
  /\ UNCHANGED <<tagVars, numberVars, out>>

(* delayedremovetag ends its output with a newline. *)
RemoverEnds ==
  /\ Remover /\ Eof
  /\ out' = IF prog = "delayedremovetag" THEN Append(out, 0) ELSE out
  /\ UNCHANGED <<tagVars, numberVars>>

-----------------------------------------------------------------------------
(* number                                                                  *)

(* str, once everything up to the character n is in it. *)
Str(n) == [k \in 1 .. n + 1 - start |-> start + k - 1]

(* Seeded fault: what is left at EOF is dropped. *)
BugRest == <<>>

Rest == Str(Len(text))

WriteOut(s) == out' = out \o s /\ numbered' = Append(numbered, start)

Collect(c) ==
  /\ prog = "number" /\ c # "newline" /\ Getc(c)
  /\ UNCHANGED <<state, tagVars, numberVars, out>>

LineEnds(c) ==
  /\ prog = "number" /\ c = "newline" /\ Getc(c)
  /\ WriteOut(CString(Str(Here), text'))
  /\ start' = Here + 1
  /\ UNCHANGED <<state, tagVars>>

(* strcmp(str, "") # 0: what is left has no newline and gets one. *)
NumberEnds ==
  /\ prog = "number" /\ Eof
  /\ \/ CString(Rest, text) # <<>> /\ WriteOut(Append(Rest, 0))
     \/ CString(Rest, text) = <<>> /\ UNCHANGED <<out, numbered>>
  /\ UNCHANGED <<tagVars, start>>

FilterNext ==
  \/ \E c \in Chars : Bracket(c) \/ Inside(c) \/ Outside(c) \/ Overrun(c)
  \/ \E c \in Chars : Collect(c) \/ LineEnds(c)
  \/ RemoverEnds \/ NumberEnds

FilterSpec == FilterInit /\ [][FilterNext]_filterVars

-----------------------------------------------------------------------------
Read == 1 .. Len(text)

(* A character of the text proper: not a bracket, and a ">" has followed   *)
(* every "<" before it.                                                    *)
InText(i) ==
  /\ text[i] \in Plain
  /\ \A j \in 1 .. i - 1 : text[j] = "<" => \E k \in j + 1 .. i - 1 : text[k] = ">"

AddsNewline == prog = "delayedremovetag" /\ state = "done"

(* What is written of the input. *)
Copied == {n \in 1 .. Len(out) : ~(AddsNewline /\ n = Len(out))}

(* The tag removers write what is outside of tags, all of it, once and in  *)
(* order, and nothing else, whatever brackets follow each other.           *)
TextKept ==
  Remover /\ state # "overrun" =>
    /\ \A i \in Read : InText(i) <=> \E n \in Copied : out[n] = i
    /\ \A m, n \in Copied : m < n => out[m] < out[n]
    /\ AddsNewline => Len(out) > 0 /\ out[Len(out)] = 0

(* The text of the tags directly before the character i. *)
TagsBefore(i) ==
  {j \in 1 .. i - 1 : text[j] \in Plain /\ \A k \in j .. i - 1 : ~InText(k)}

(* removetag0 tells of the tags before a character of text if, and only    *)
(* if, one of them has an illegal character, and shows their text only;    *)
(* that text never fills TagMsg past its end unnoticed.                    *)
IllegalTold ==
  prog = "removetag0" /\ state # "overrun" =>
    /\ Len(tag) <= TagSize
    /\ {errors[n].at : n \in 1 .. Len(errors)}
         = {i \in Read : InText(i) /\ \E j \in TagsBefore(i) : text[j] # "a"}
    /\ \A n \in 1 .. Len(errors) :
         LET e == errors[n]
         IN {e.tag[k] : k \in 1 .. Len(e.tag)}
              = {j \in TagsBefore(e.at) :
                   \A k \in TagsBefore(e.at) : k <= j => text[k] # "nul"}

(* Every tag with an illegal character is told of, with its own text.      *)
EachTagTold ==
  prog = "removetag0" /\ state = "done" =>
    \A i, j \in Read :
      /\ i < j /\ text[i] = "<" /\ text[j] = ">"
      /\ \A k \in i + 1 .. j - 1 : text[k] \in Plain
      /\ \E k \in i + 1 .. j - 1 : text[k] # "a"
      => \E n \in 1 .. Len(errors) :
           errors[n].tag = CString([k \in 1 .. j - i - 1 |-> i + k], text)

NulFree == \A i \in Read : text[i] # "nul"

(* number writes the whole input, and one number in front of every line,   *)
(* the last one without a newline included - as long as there is no NUL.   *)
LinesNumbered ==
  prog = "number" /\ state # "running" /\ NulFree =>
    /\ out = [i \in Read |-> i]
               \o (IF Len(text) = 0 \/ text[Len(text)] = "newline" THEN <<>> ELSE <<0>>)
    /\ \A m, n \in 1 .. Len(numbered) : m < n => numbered[m] < numbered[n]
    /\ {numbered[n] : n \in 1 .. Len(numbered)}
         = {i \in Read : i = 1 \/ text[i - 1] = "newline"}
=============================================================================
