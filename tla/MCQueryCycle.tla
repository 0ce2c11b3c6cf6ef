---------------------------- MODULE MCQueryCycle ----------------------------
(***************************************************************************)
(* Commands for TLC.                                                       *)
(***************************************************************************)
EXTENDS QueryCycle

Command(class, stmts) == [class |-> class, stmts |-> stmts]

\* Several results, both COPYs, and each protocol.
EveryCycle == {Command("SIMPLE", <<"rows", "command">>), Command("SIMPLE", <<"copyin">>),
               Command("SIMPLE", <<"copyout">>), Command("EXTENDED", <<"rows">>),
               Command("DESCRIBE", <<>>)}

\* A query of two results, a COPY that waits for the client and one the client
\* waits for, and what has no rows.
EveryLoop == {Command("SIMPLE", <<"rows", "command">>), Command("SIMPLE", <<"copyin">>),
              Command("SIMPLE", <<"copyout">>), Command("EXTENDED", <<>>),
              Command("PREPARE", <<"rows">>)}

\* A COPY of the extended protocol, and a query after it.
ExtendedCopy == {Command("EXTENDED", <<"copyin">>), Command("SIMPLE", <<"command">>)}
=============================================================================
