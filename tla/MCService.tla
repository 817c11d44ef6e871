------------------------------ MODULE MCService ------------------------------
(* A small instance of Service for TLC, and what the name table must satisfy. *)
EXTENDS Service, TLC

CONSTANTS p, q, r

TwoModels   == <<"asr", "vlm">>
SomeAliases == [m \in {"asr", "vlm"} |-> IF m = "asr" THEN <<"whisper">> ELSE <<>>]

\* p is preloaded, q and r come by HTTP.
SomeRequests == {p, q, r}
Names == (p :> "asr") @@ (q :> "vlm") @@ (r :> "whisper")

\* Go visits a map in any order.  Whether a configuration is accepted does not depend on
\* it, exactly the configurations in which no name means two models are accepted, and
\* then Index rebuilds the table that toConfig has checked.
Ids == {"a", "b"}
Orders == {<<"a", "b">>, <<"b", "a">>}
AliasLists == {<<>>} \cup {<<x>> : x \in {"a", "b", "c"}}
              \cup {<<x, y>> : x \in {"a", "b", "c"}, y \in {"a", "b", "c", "d"}}
NamesOf(id, aliases) == <<id>> \o aliases[id]
Distinct(aliases) ==
  LET all == NamesOf("a", aliases) \o NamesOf("b", aliases)
  IN  \A i, j \in 1 .. Len(all) : i # j => all[i] # all[j]

ASSUME NamesAreUnambiguous ==
  \A aliases \in [Ids -> AliasLists] : \A o \in Orders :
    /\ NameTable(o, aliases) # Collision <=> Distinct(aliases)
    /\ Distinct(aliases) => \A o2 \in Orders : IndexTable(o2, aliases) = NameTable(o, aliases)
=============================================================================
