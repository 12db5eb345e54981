------------------------------ MODULE MCRelay ------------------------------
(***************************************************************************)
(* Relay on small instances: flags and files that set a bearer, a shell    *)
(* and a value that is refused; requests with and without the bearer.      *)
(***************************************************************************)
EXTENDS Relay, TLC

MCFlags == {<<>>, "bearer" :> "", "idle" :> "none", "shell" :> "other"}
MCFile  == {<<>>, [bearer |-> "good", shell |-> "cmd"], "bearer" :> "short", "roots" :> "bad"}
MCHost  == {{"pwsh", "cmd"}}

Bearers(header, token) == [header |-> header, token |-> token]
MCCred == {Bearers("good", ""), Bearers("", "good"), Bearers("bad", "good"), Bearers("", "")}
Ask(shell, idle, cred) == [shell |-> shell, idle |-> idle, cred |-> cred, json |-> TRUE]
MCTimeout == {-1, 0, 1}
MCPost == {Ask("", -1, c) : c \in MCCred}
          \cup {Ask("powershell", 1, Bearers("good", "")),
                Ask("", 2, Bearers("good", "")),
                [Ask("", 0, Bearers("", "good")) EXCEPT !.json = FALSE]}
=============================================================================
