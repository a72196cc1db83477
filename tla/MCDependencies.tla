---------------------------- MODULE MCDependencies ----------------------------
(* Two web services that share a database, which has a log of its own.     *)
EXTENDS Dependencies

MCNames == <<"api", "db", "log", "web">>
MCRequires == [s \in Services |-> CASE s \in {"api", "web"} -> <<"db">>
                                     [] s = "db" -> <<"log">>
                                     [] OTHER -> <<>>]
=============================================================================
