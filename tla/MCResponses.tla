----------------------------- MODULE MCResponses ------------------------------
(* Values for TLC: a root with a file below a directory, another with a    *)
(* type of its own, and requests that meet or miss them, with no slash     *)
(* between root and path, with one and with two.                           *)
EXTENDS Responses

SomeRests == { <<>>, <<"/">>, <<"a", "css">>, <<"/", "a", "css">>, <<"/", "d">>,
               <<"/", "d", "/", "b", "own">>, <<"/", "..", "/", "a", "css">>,
               <<"/", "/", "a", "css">>, <<"d", "/", "/", "b", "own">>,
               <<"/", "a", "css", "/">>, <<"/", "gone">> }
SomeFiles == { <<"a", "css">>, <<"d", "/", "b", "own">> }
SomePrefix == <<"in", "/">>
SomeEntries == { <<"in", "/", "a", "css">>, <<"in", "/", "d", "/", "b", "own">> }
SomeLoadable == { <<"a", "css">>, <<"d", "/", "b", "own">> }
SomeTypes == << <<"js", "text/javascript">>, <<"css", "text/css">>, <<"css", "text/mine">>,
                <<"own", "text/own">> >>
=============================================================================
