------------------------------ MODULE MCAttach ------------------------------
(***************************************************************************)
(* Attach on small instances: the command lines that lead to a session in  *)
(* different ways, and one without a terminal.                             *)
(***************************************************************************)
EXTENDS Attach

Line(session, new, tty) == [session |-> session, new |-> new, tty |-> tty]
MCOpts == {Line(None, FALSE, TRUE), Line(Other, FALSE, TRUE), Line(New, FALSE, TRUE),
           Line(None, TRUE, TRUE), Line(None, TRUE, FALSE)}

\* What happens in one behaviour: outputs and the end, keys and the end, or changes of size.
Load(o, k, n, c, e) == [out |-> o, keys |-> k, size |-> n, new |-> c, ends |-> e]
MCLoads == {Load(1, 0, 1, FALSE, TRUE), Load(2, 0, 1, FALSE, FALSE), Load(0, 2, 1, FALSE, FALSE),
            Load(0, 1, 1, FALSE, TRUE), Load(0, 0, 4, FALSE, FALSE),
            Load(0, 0, 1, TRUE, FALSE)}
=============================================================================
