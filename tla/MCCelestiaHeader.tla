-------------------------- MODULE MCCelestiaHeader --------------------------
(* CelestiaAggregates for TLC.  Padding, two blobs of a namespace and a     *)
(* blob that runs over the end of a row are in the blocks that are fetched. *)
EXTENDS CelestiaAggregates

u == <<0, 1, 0, 0>>
v == <<0, 0, 1, 7>>
Item(kind, ns, len) == [kind |-> kind, ns |-> ns, len |-> len]

MCSide == <<1, 1, 1, 2, 2>>
MCBlock ==
    <<<<>>, <<Item("blob", u, 1)>>, <<>>,
      <<Item("transactions", <<0, 0, 0, 1>>, 1), Item("blob", v, 2)>>,
      <<Item("blob", u, 1), Item("padding", u, 1), Item("blob", u, 1), Item("blob", v, 1)>>>>

=============================================================================
