------------------------------ MODULE ShellText ------------------------------
(***************************************************************************)
(* src/pset5: how sh61 reads a command line.  helpers.cc cuts the line,    *)
(* a sequence of characters, into tokens; sh61.cc builds from them a tree: *)
(* a sequence of chains (a ; b & c), each a sequence of pipelines with the *)
(* connector after each (a && b || c), each a sequence of commands         *)
(* (a | b), each its words and up to three redirections.                   *)
(*                                                                         *)
(* A token is [type, text, next], next the place where the line goes on.   *)
(***************************************************************************)
EXTENDS Integers, Sequences, SequencesExt

Special == {"<", ">", "&", "|", ";", "(", ")", "#"}
Space == {" ", "\n"}
Digit == {"0", "1", "2"}
NUL == "end"
At(s, i) == IF i <= Len(s) THEN s[i] ELSE NUL
Skip(s, i, C) == CHOOSE j \in i..Len(s) + 1 :
                   At(s, j) \notin C /\ \A k \in i..j - 1 : s[k] \in C
Token(type, text, next) == [type |-> type, text |-> text, next |-> next]

(* The characters of a word from place i on; q is the open quote or NUL. *)
RECURSIVE Word(_, _, _, _)
Word(s, i, q, text) ==
    LET ch == At(s, i) IN
    IF ch = NUL \/ (q = NUL /\ ch \in Space \cup Special) THEN Token("word", text, i)
    ELSE IF ch \in {"\"", "'"} /\ q = NUL THEN Word(s, i + 1, ch, text)
    ELSE IF ch = q THEN Word(s, i + 1, NUL, text)
    ELSE IF ch = "\\" /\ At(s, i + 1) # NUL /\ q # "'" THEN Word(s, i + 2, q, Append(text, s[i + 1]))
    ELSE Word(s, i + 1, q, Append(text, ch))

(* A redirection operator whose < or > is at j, after its digits.  After    *)
(* the digits of >&1 the code steps over one more character.                *)
Redirection(s, i, j) ==
    LET upto(k) == SubSeq(s, i, k) IN
    IF At(s, j + 1) = ">" THEN Token("redirection", upto(j + 1), j + 2)
    ELSE IF At(s, j + 1) = "&" /\ At(s, j + 2) \in Digit
    THEN LET k == Skip(s, j + 2, Digit) IN Token("redirection", upto(k - 1), k + 1)
    ELSE Token("redirection", upto(j), j + 1)

TypeOf == (";" :> "sequence" @@ "&" :> "background" @@ "|" :> "pipe")
BugParseToken(s, from) ==   \* && is two tokens
    LET i == Skip(s, from, Space)  j == Skip(s, i, Digit) IN
    IF At(s, j) \in {"<", ">"} THEN Redirection(s, i, j)
    ELSE IF i = j /\ At(s, i) \in Special
    THEN Token(IF s[i] \in DOMAIN TypeOf THEN TypeOf[s[i]] ELSE "other", <<s[i]>>, i + 1)
    ELSE Word(s, j, NUL, SubSeq(s, i, j - 1))
ParseToken(s, from) ==
    LET i == Skip(s, from, Space)  j == Skip(s, i, Digit) IN
    IF At(s, j) \in {"<", ">"} THEN Redirection(s, i, j)
    ELSE IF i = j /\ At(s, i) \in {"&", "|"} /\ At(s, i + 1) = s[i]
    THEN Token(IF s[i] = "&" THEN "and" ELSE "or", <<s[i], s[i]>>, i + 2)
    ELSE IF i = j /\ At(s, i) \in Special
    THEN Token(IF s[i] \in DOMAIN TypeOf THEN TypeOf[s[i]] ELSE "other", <<s[i]>>, i + 1)
    ELSE Word(s, j, NUL, SubSeq(s, i, j - 1))
LineOver(s, from) == At(s, Skip(s, from, Space)) \in {NUL, "#"}

------------------------------------------------------------------------------
(* The tree, and what parse_line() remembers while it builds one: at is the  *)
(* place in the line.                                                        *)
NoFile == <<>>
Command == [args |-> <<>>, redirs |-> [i \in 0..2 |-> NoFile]]
Pipeline == [cmds |-> <<Command>>, is_or |-> FALSE, is_and |-> FALSE]
Chain == [bg |-> FALSE, pipes |-> <<Pipeline>>]
Start == [chains |-> <<>>, new_chain |-> TRUE, new_pipeline |-> FALSE,
          redir |-> -1, next_file |-> FALSE, at |-> 1]

InChain(p, c) == [p EXCEPT !.chains[Len(p.chains)] = c]
LastChain(p) == Last(p.chains)
LastPipe(p) == Last(LastChain(p).pipes)
InPipe(p, q) == InChain(p, [LastChain(p) EXCEPT !.pipes[Len(LastChain(p).pipes)] = q])
InCommand(p, c) == InPipe(p, [LastPipe(p) EXCEPT !.cmds[Len(LastPipe(p).cmds)] = c])

(* A separator makes its chain or pipeline only when a token follows. *)
Begun(p) ==
    IF p.new_chain
    THEN [p EXCEPT !.new_chain = FALSE, !.chains = Append(@, Chain)]
    ELSE IF p.new_pipeline
    THEN [InChain(p, [LastChain(p) EXCEPT !.pipes = Append(@, Pipeline)]) EXCEPT
            !.new_pipeline = FALSE]
    ELSE p
RedirOf == <<">">> :> 1 @@ <<"<">> :> 0 @@ <<"2", ">">> :> 2

Parse(before, t) ==
    LET p == [Begun(before) EXCEPT !.at = t.next]  cmd == Last(LastPipe(p).cmds)
        NewWord == InCommand(p, [cmd EXCEPT !.args = Append(@, t.text)]) IN
    CASE t.type = "word" /\ p.next_file ->
           [InCommand(p, [cmd EXCEPT !.redirs[p.redir] = t.text]) EXCEPT !.next_file = FALSE]
      [] t.type = "word" /\ ~p.next_file -> NewWord
      [] t.type \in {"sequence", "background"} ->
           [InChain(p, [LastChain(p) EXCEPT !.bg = t.type = "background"]) EXCEPT
              !.new_chain = TRUE]
      [] t.type = "or" -> [InPipe(p, [LastPipe(p) EXCEPT !.is_or = TRUE]) EXCEPT !.new_pipeline = TRUE]
      [] t.type = "and" -> [InPipe(p, [LastPipe(p) EXCEPT !.is_and = TRUE]) EXCEPT !.new_pipeline = TRUE]
      [] t.type = "pipe" -> InPipe(p, [LastPipe(p) EXCEPT !.cmds = Append(@, Command)])
      [] t.type = "redirection" ->
           [p EXCEPT !.redir = IF t.text \in DOMAIN RedirOf THEN RedirOf[t.text] ELSE @,
                     !.next_file = TRUE]
      [] OTHER -> NewWord
=============================================================================
