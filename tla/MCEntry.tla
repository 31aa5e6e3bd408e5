------------------------------ MODULE MCEntry ------------------------------
(***************************************************************************)
(* A small instance of Entry: every client, way, kind of id, library and   *)
(* outcome, a spawn_cell that makes an error of an exit code and one that  *)
(* does not, signatures around both limits, and faulty texts for main.     *)
(***************************************************************************)
EXTENDS Entry

Message == [k \in 1 .. 32 |-> (37 * k) % 256]
Hash    == [k \in 1 .. 20 |-> (91 * k + 5) % 256]

\* Around CLIENT_LIMIT = 2 and MAIN_LIMIT = 3, bytes with and without letters.
Signatures == { <<>>, <<7>>, <<171, 0>>, <<255, 16, 9>>, <<1, 2, 3, 250>> }

Call(client, category, alg, signature, lib, outcome) ==
    [ client |-> client, category |-> category, alg |-> alg,
      signature |-> signature, message |-> Message, hash |-> Hash,
      argv |-> <<>>, lib |-> lib, exit_err |-> TRUE, outcome |-> outcome ]

ClientCalls ==
    { Call(client, category, alg, signature, lib, outcome) :
         client \in {"c", "rust"}, category \in {0, 1, 2, 3},
         alg \in {0, 9, 10, 252}, signature \in Signatures,
         lib \in {"ok", "missing", "nosym"},
         outcome \in {0, ERROR_ILLEGAL_CALLBACK, ERROR_MISMATCHED, ERROR_VERIFICATION} }
    \cup { Call("c", category, 0, <<7>>, "ok", outcome) :
              category \in {1, 2}, outcome \in Outcomes }

Good == << Text(Upper, <<252>>), Text(Upper, <<171, 0>>), ckb_bin2hex(Message),
           Text(Upper, Hash) >>

\* main with well-formed texts, and with each text spoilt.
Texts ==
    { Good, <<>>, SubSeq(Good, 1, 3), Append(Good, <<>>) }
    \cup { [Good EXCEPT ![k] = Append(@, "0")] : k \in 1 .. 4 }
    \cup { [Good EXCEPT ![k][1] = "g"] : k \in 1 .. 4 }
    \cup { [Good EXCEPT ![k][1] = "e"] : k \in 1 .. 4 }
    \cup { [Good EXCEPT ![2] = ckb_bin2hex(s)] : s \in Signatures }

ArgvCalls ==
    { [Call("argv", 2, 0, <<>>, lib, 0) EXCEPT !.argv = texts] :
         lib \in {"ok", "missing"}, texts \in Texts }

\* The Rust client's calls with a spawn_cell that returns the exit code in Ok.
UnseenCalls == { [c EXCEPT !.exit_err = FALSE] : c \in { d \in ClientCalls : d.client = "rust" } }

MCCalls == ClientCalls \cup UnseenCalls \cup ArgvCalls
=============================================================================
