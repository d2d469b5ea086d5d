-------------------------- MODULE RelayBoardClaims --------------------------
(***************************************************************************)
(* What a comment of the source says of the board, as a reader takes it.   *)
(* It is refuted by a key press inside the MQTT thread's work, on a board  *)
(* where no call fails and no message is lost.                             *)
(***************************************************************************)
EXTENDS RelayBoard

AtRest == pc \in {"offline", "loop", "yield"}

(* user_mqtt.c:33 (mqtt_relay_update_flag): once the flag is set the       *)
(* update is sent to the server.  So when the flag is down and no message  *)
(* was lost, the server knows every relay (but for one that was sent a     *)
(* payload that is neither ON nor OFF, which is echoed).                   *)
RaisedFlagIsSent ==
    (AtRest /\ ~updateFlg) =>
        \A r \in Relay : view[r] \in {Name(status[r]), "other"}
=============================================================================
