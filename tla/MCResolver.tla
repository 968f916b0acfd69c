------------------------------ MODULE MCResolver ------------------------------
\* One thread of a resolver, and a federation in which everything a climb can meet is there.
EXTENDS Resolver, TLC

CONSTANTS leaf, inter, other, anchor, loop

\* The leaf is below the anchor directly and through inter, which also names a superior
\* without a fetch endpoint.  The anchor and loop hint at themselves; loop also names the
\* leaf, which is not a federation_entity.
McHints ==
  leaf :> {inter, anchor} @@ inter :> {anchor, other} @@ other :> {} @@ anchor :> {anchor}
    @@ loop :> {loop, leaf}
=============================================================================
