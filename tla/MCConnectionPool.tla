--------------------------- MODULE MCConnectionPool ---------------------------
(* Instances of ConnectionPool for TLC. *)
EXTENDS ConnectionPool, TLC

CONSTANTS read, answer, publish, register, health

MCCalls == {read, answer, publish, register, health}

MCKind ==
    read :> "read" @@ answer :> "answer" @@ publish :> "publish"
    @@ register :> "register" @@ health :> "health"
=============================================================================
