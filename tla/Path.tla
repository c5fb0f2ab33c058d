-------------------------------- MODULE Path --------------------------------
(***************************************************************************)
(* fs_normalize_path() of lib/fs/fs.c, which rewrites a path in place: a   *)
(* read position, a write position and a state, one step for each round of *)
(* its loop.  Characters stand for themselves: "/", "." and any others;    *)
(* END is the terminating 0.                                               *)
(***************************************************************************)
EXTENDS Integers, Sequences, SequencesExt

CONSTANTS
    Letter,         \* characters other than "/" and "."
    MaxLen          \* bound: the length of the paths tried

VARIABLES
    path, pos, outpos, state, done,
    input,          \* history: the path that was given
    rounds          \* history: the rounds of the loop so far

vars == <<path, pos, outpos, state, done, input, rounds>>

END == "0"

\* pos and outpos count from 0, as in the source.
At(i) == path[i + 1]

Init ==
    /\ input \in SeqOf({"/", "."} \cup Letter, MaxLen)
    /\ path = Append(input, END)
    /\ pos = 0
    /\ outpos = 0
    /\ state = "INITIAL"
    /\ done = FALSE
    /\ rounds = 0

c == At(pos)

Goto(s) == state' = s /\ UNCHANGED <<path, pos, outpos, done>>

\* Moves on without writing.
Skip(s) == state' = s /\ pos' = pos + 1 /\ UNCHANGED <<path, outpos, done>>

Stop == done' = TRUE /\ UNCHANGED <<path, pos, outpos, state>>

\* Writes ch at outpos n times.
Emit(ch, n) ==
    /\ path' = [i \in DOMAIN path |-> IF i - 1 \in outpos..outpos + n - 1 THEN ch ELSE path[i]]
    /\ outpos' = outpos + n
    /\ UNCHANGED done

\* Mutant of Backtracked: the walk begins at the separator instead of before it.
Backtracked_FromSlash ==
    CHOOSE i \in 0..outpos :
        /\ i = 0 \/ At(i - 1) = "/"
        /\ \A j \in i + 1..outpos : At(j - 1) # "/"

\* The write position after "..": the field written last is given up, with the separator after it.
Backtracked ==
    IF outpos = 0 THEN 0
    ELSE CHOOSE i \in 0..outpos - 1 :
            /\ i = 0 \/ At(i - 1) = "/"
            /\ \A j \in i + 1..outpos - 1 : At(j - 1) # "/"

Round ==
    CASE state = "INITIAL" -> Goto(IF c = "/" THEN "SEP" ELSE IF c = "." THEN "DOT" ELSE "FIELD_START")
      [] state = "FIELD_START" -> IF c = END THEN Stop ELSE Goto(IF c = "." THEN "DOT" ELSE "IN_FIELD")
      [] state = "IN_FIELD" ->
            IF c = END THEN Stop
            ELSE IF c = "/" THEN Goto("SEP")
            ELSE Emit(c, 1) /\ pos' = pos + 1 /\ UNCHANGED state
      [] state = "SEP" -> Emit("/", 1) /\ pos' = pos + 1 /\ state' = "SEEN_SEP"
      [] state = "SEEN_SEP" ->
            IF c = END THEN Stop ELSE IF c = "/" THEN Skip("SEEN_SEP") ELSE Goto("FIELD_START")
      [] state = "DOT" -> Skip("SEEN_DOT")
      [] state = "SEEN_DOT" ->
            IF c = END THEN Stop
            ELSE IF c = "." THEN Goto("DOTDOT")
            ELSE IF c = "/" THEN Skip("SEEN_SEP")
            ELSE Emit(".", 1) /\ state' = "IN_FIELD" /\ UNCHANGED pos
      [] state = "DOTDOT" -> Skip("SEEN_DOTDOT")
      [] state = "SEEN_DOTDOT" ->
            IF c \in {"/", END}
            THEN /\ outpos' = Backtracked
                 /\ pos' = pos + 1
                 /\ state' = "SEEN_SEP"
                 /\ done' = (c = END)
                 /\ UNCHANGED path
            ELSE Emit(".", 2) /\ state' = "IN_FIELD" /\ UNCHANGED pos

Next ==
    /\ ~done
    /\ Round
    /\ rounds' = rounds + 1
    /\ UNCHANGED input

Spec == Init /\ [][Next]_vars

\* What is left in path once the trailing separator is gone and the 0 is written.
Result ==
    LET n == IF outpos > 0 /\ At(outpos - 1) = "/" THEN outpos - 1 ELSE outpos
    IN  SubSeq(path, 1, n)

-----------------------------------------------------------------------------
(***************************************************************************)
(* What a path means.                                                      *)
(***************************************************************************)

\* The fields between the separators of p, without the empty ones.
Fields(p) ==
    SelectSeq(FoldLeft(LAMBDA fs, ch : IF ch = "/" THEN Append(fs, <<>>)
                                       ELSE [fs EXCEPT ![Len(fs)] = Append(@, ch)], << <<>> >>, p),
              LAMBDA f : f # <<>>)

\* The fields in fs with "." dropped and ".." cancelling the one before; and whether a ".." found none.
Resolve(fs) ==
    FoldLeft(LAMBDA r, f :
                IF f = <<".">> THEN r
                ELSE IF f # <<".", ".">> THEN [r EXCEPT !.fields = Append(@, f)]
                ELSE IF r.fields = <<>> THEN [r EXCEPT !.above = TRUE]
                ELSE [r EXCEPT !.fields = Front(@)],
             [fields |-> <<>>, above |-> FALSE], fs)

Rooted(p) == p # <<>> /\ Head(p) = "/"

(***************************************************************************)
(* fs_normalize_path() never writes what it has not read yet, nor beyond   *)
(* the end of the string; it takes at most three rounds for a character;   *)
(* and it ends with the fields that the path leads through, "." and ".."   *)
(* resolved and one separator between two.  The path is rooted as it was   *)
(* unless a ".." leads above the root or nothing is left.                  *)
(***************************************************************************)
PathResolved ==
    /\ outpos <= pos \/ done
    /\ outpos <= Len(input)
    /\ rounds <= 3 * Len(input) + 3
    /\ done =>
        LET r == Resolve(Fields(input))
        IN  /\ Fields(Result) = r.fields
            /\ Rooted(Result) <=> Rooted(input) /\ ~r.above /\ r.fields # <<>>
            /\ \A i \in 1..Len(Result) - 1 : ~(Result[i] = "/" /\ Result[i + 1] = "/")
            /\ Result # <<>> => Last(Result) # "/"
=============================================================================
