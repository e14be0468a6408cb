---------------------------- MODULE MCArenaPool ----------------------------
(* Small instances of ArenaPool for TLC.                                   *)
EXTENDS ArenaPool

\* Two long payloads of different lengths (the second is cut at the page's
\* end), a short one with an interior NUL, and one that fills the inline area.
MCPayloads == {<<"a", "a">>, <<"b", "b", "b", "b">>, <<"n">>, <<"a">>}
\* Every payload has the same checksum.
MCCrc == [d \in { Capped(p) : p \in LongPayloads } |-> 1]
\* An event of an earlier process whose descriptor names a page of this one,
\* and one whose page index is out of range.
MCForeign ==
  { [long |-> TRUE, pageIdx |-> 0, len |-> 2, crc |-> 1, epoch |-> 0, inline |-> NoPayload],
    [long |-> TRUE, pageIdx |-> Capacity, len |-> 2, crc |-> 1, epoch |-> 0, inline |-> NoPayload] }
=============================================================================
