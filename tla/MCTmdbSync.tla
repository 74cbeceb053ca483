----------------------------- MODULE MCTmdbSync -----------------------------
(* An instance of TmdbSync for TLC: two movies that TMDb's two lists order *)
(* differently, so that a discovery that meets both may miss one or take   *)
(* one twice, one that is filtered and one that is too little known.  Of   *)
(* the movies taken, TMDb has an IMDb id for one, and for the other now    *)
(* and then.                                                               *)
EXTENDS TmdbSync

CONSTANTS a, b, x, c, old, new

Item(id, version, kind) == [id |-> id, version |-> version, kind |-> kind]
MCCatalogues ==
  {<<Item(a, old, "taken"), Item(x, old, "filtered"),
     Item(b, old, "taken"), Item(c, old, "unpopular")>>,
   <<Item(b, new, "taken"), Item(a, old, "taken"),
     Item(x, old, "filtered"), Item(c, old, "unpopular")>>}

MCIdentified == {{a}, {a, b}}
=============================================================================
