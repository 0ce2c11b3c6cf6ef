---------------------------- MODULE ExecPromise ----------------------------
(***************************************************************************)
(* What a caller of PQexec may rely on, without a wire in sight.  Command  *)
(* k is given to libpq, and may be applied by the database: at most once,  *)
(* after every command given before it that is applied at all.  At most    *)
(* once, too, PQexec says what became of it.                               *)
(***************************************************************************)
EXTENDS Naturals

CONSTANT MaxCommands

VARIABLES
    answer,     \* what PQexec said of each command
    committed   \* the commands the database has applied

\* none: not returned yet, or sent by another function; null: not sent; lost:
\* the connection failed and nobody knows; copy: the COPY is in progress.
Answers == {"none", "ok", "failed", "null", "lost", "copy"}

Init ==
    /\ answer = [k \in 1..MaxCommands |-> "none"]
    /\ committed = {}

\* What was reported as failed or not sent is never applied, and what was
\* reported as done has been.
Commit(k) ==
    /\ answer[k] \in {"none", "lost", "copy"}
    /\ \A j \in committed : j < k
    /\ committed' = committed \cup {k}
    /\ UNCHANGED answer

Return(k, kind) ==
    /\ answer[k] = "none"
    /\ kind = "ok" => k \in committed
    /\ kind \in {"failed", "null"} => k \notin committed
    /\ answer' = [answer EXCEPT ![k] = kind]
    /\ UNCHANGED committed

Next ==
    \E k \in 1..MaxCommands :
        Commit(k) \/ \E kind \in Answers \ {"none"} : Return(k, kind)

Spec == Init /\ [][Next]_<<answer, committed>>
=============================================================================
