-------------------------------- MODULE MCGate --------------------------------
(***************************************************************************)
(* GraphManager on a small instance about the gains: a convolver whose two *)
(* nodes come and go one by one, two gain parameters, two venues, and no   *)
(* link to manage.                                                         *)
(***************************************************************************)
EXTENDS GraphManager

MCName == {"convolver", "convolver-out", "usb"}

MCProcess == {{"convolver"}, {"convolver-out"}}

(* As the filter-chain module has them: both at once. *)
MCFilterChain == {{"convolver", "convolver-out"}}

MCTable == [m \in {"standby", "dj"} |-> {<<"convolver-out", "usb">>}]

(* Unity is 2; the production defaults are lower than a venue's gains, and *)
(* one venue asks for more than unity and has a channel at -60 dB.         *)
MCRestore == [p \in {"main", "sub"} |-> 1]

MCProfile ==
  [v \in {"hall", "club"} |->
     IF v = "hall" THEN [p \in {"main", "sub"} |-> 2]
                   ELSE [p \in {"main", "sub"} |-> IF p = "main" THEN 3 ELSE -1]]

=============================================================================
