---------------------------- MODULE MCProcessingModes ---------------------------
(***************************************************************************)
(* Instances of ProcessingModes for TLC: the event lists and requests of   *)
(* MCQueryProcessor in one piece, and requests of each kind in parts of    *)
(* two events.                                                             *)
(***************************************************************************)
EXTENDS MCQueryProcessor, ProcessingModes

PlayedOrSought ==
  <<Within("a", "player", "play", Window(2)), Within("b", "user", "seek", Window(2))>>

InParts ==
  {<<>>,
   <<State("a", "buffer")>>,
   <<Existed("a", "play")>>,
   <<Within("a", "player", "play", Window(2))>>,
   <<Within("a", "player", "play", NoParams)>>,
   <<InState("a", State("", "buffer"))>>,
   <<Not("a", Within("", "player", "play", Window(1)))>>,
   PlayedOrSought \o <<Duration("result", <<>>, <<"a", "b">>)>>,
   PlayedOrSought \o <<Duration("result", <<"a", "b">>, <<>>)>>,
   PlayedOrSought \o <<Longest("c", "a", 0)>>,
   PlayedOrSought \o <<Existed("c", "play"), Or("d", <<"a", "b", "c">>),
                       Duration("e", <<"d">>, <<>>)>>,
   <<State("a", "buffer"), Duration("b", <<"a">>, <<>>)>>,
   <<State("result", "buffer"), Duration("b", <<"result">>, <<>>)>>}

AllRequests == ManyRequests \union InParts
================================================================================
