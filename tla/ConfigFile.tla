------------------------------- MODULE ConfigFile -------------------------------
(***************************************************************************)
(* What EasyConfig.Load makes of the lines of a file.  A line is a         *)
(* sequence of words and of the tokens "#", "=", " " and "\n"; the last    *)
(* line of a file may lack its "\n".                                       *)
(***************************************************************************)
EXTENDS Integers, SequencesExt

IndexOf(token, line) == SelectInSeq(line, LAMBDA t : t = token)

Before(token, line) ==
    LET i == IndexOf(token, line)
    IN IF i = 0 THEN line ELSE SubSeq(line, 1, i - 1)

TrimSpace(line) ==
    LET words == {i \in DOMAIN line : line[i] \notin {" ", "\n"}}
    IN IF words = {} THEN <<>> ELSE SubSeq(line, Min(words), Max(words))

\* ReadString gives the last line without its "\n" together with io.EOF: Load
\* leaves it out.
Complete(line) == line # <<>> /\ Last(line) = "\n"

\* A comment is cut off; a line defines something if its first "=" has a key
\* before it.  The value goes to the next "=", what follows that is lost.
Text(line) == Before("#", TrimSpace(line))

Defines(line) == IndexOf("=", Text(line)) > 1

Key(line) == TrimSpace(Before("=", Text(line)))

Value(line) ==
    LET text == Text(line)
        behind == SubSeq(text, IndexOf("=", text) + 1, Len(text))
    IN TrimSpace(Before("=", behind))
=============================================================================
