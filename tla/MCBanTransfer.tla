--------------------------- MODULE MCBanTransfer ----------------------------
(* One list of which the last two entries are sent, in one datagram, and   *)
(* one that is sent as a whole, in two if there are three.  The client     *)
(* starts with a protected entry and with one that the server may lack.    *)
EXTENDS BanTransfer
MCLists == <<"tempbans", "banned_cities">>
MCWindow == [l \in {"tempbans", "banned_cities"} |->
              IF l = "tempbans" THEN 2 ELSE MaxEntry]
MCServerLists == {{}, {2, 3}}
MCClientLists == {{1, 2}}
=============================================================================
