----------------------------- MODULE MCRequests -----------------------------
(* Instance of Requests for TLC.                                           *)
EXTENDS Requests

MCAcks == {<<"1", "2">>, <<"2", "2">>}
MCStale == {<<>>, <<"?;}">>, <<"2", ";}">>}

=============================================================================
