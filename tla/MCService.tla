------------------------------- MODULE MCService -------------------------------
(***************************************************************************)
(* The RPC server with two clients, each of which sends one request, and   *)
(* two venues; a socket holds a line and a half.                           *)
(***************************************************************************)
EXTENDS RpcServer, TLC

CONSTANTS c1, c2

MCRequest ==
  (c1 :> {<<"set_mode", "dj">>, <<"set_venue", "club">>, <<"open_gate">>})
    @@ (c2 :> {<<"get_state">>, <<"await_settled">>})

================================================================================
