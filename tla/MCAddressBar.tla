----------------------------- MODULE MCAddressBar -----------------------------
(* AddressBar with a bar that takes the focus empty or with an address. *)
EXTENDS AddressBar

MCExisting == {<<>>, <<"x", "x">>}
=============================================================================
