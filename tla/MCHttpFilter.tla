---------------------------- MODULE MCHttpFilter ------------------------------
(* Two connections of three messages: the first and the last announce their
   length, the one in between has no text.  The last of the second connection
   announces more than follows, as the response to a HEAD request does; the
   first text of the first connection has the shape of a head. *)
EXTENDS HttpFilter, TLC

ThreeTexts == <<1, 0, 1>>
FirstText == {<<1, 1, 3>>}
Lengths == <<1, 1, 2>> :> 1 @@ <<1, 3, 2>> :> 1 @@ <<1, 1, 3>> :> 1
           @@ <<2, 1, 2>> :> 1 @@ <<2, 3, 2>> :> 2
===============================================================================
