------------------------------ MODULE MCUipTcp ------------------------------
(* Instances of UipTcp for TLC.                                            *)
EXTENDS UipTcp, TLC

(* The client's numbers wrap within the connection.                        *)
NearWrap == "client" :> 14 @@ "server" :> 2
AtOnce   == {0}
OneTick  == {1}
Both(n)  == [e \in Host |-> n]
OneEach  == Both(1)
TwoUp    == "client" :> 2 @@ "server" :> 1

=============================================================================
