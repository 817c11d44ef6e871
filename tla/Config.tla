-------------------------------- MODULE Config --------------------------------
(***************************************************************************)
(* What internal/config/config.go accepts and computes: the measured       *)
(* resource profile of a model, and the table of names under which models  *)
(* can be requested.                                                       *)
(***************************************************************************)
EXTENDS Integers, Sequences

\* Model.LoadBound: the larger of the two measured peaks.
LoadBound(p) == IF p.inferencePeak > p.loadPeak THEN p.inferencePeak ELSE p.loadPeak

\* nonNeg and rawModel.resource
AcceptsProfile(p) ==
  /\ p.loadPeak >= 0 /\ p.inferencePeak >= 0 /\ p.residual >= 0
  /\ p.residual <= LoadBound(p)

\* One turn of the loop in toConfig that fills the table of aliases: an id or an alias
\* that is there already is an error.  A table is a function from names to ids; the
\* names of a turn are the id and then its aliases.
Collision == {<<>>}

AddName(table, name, id) ==
  IF table = Collision \/ \E e \in table : e[1] = name THEN Collision
  ELSE table \cup {<<name, id>>}

\* toModel
AcceptsAliases(id, aliases) == \A k \in 1 .. Len(aliases) : aliases[k] # id

AddModel(table, id, aliases) ==
  LET names == <<id>> \o aliases
      added[k \in 0 .. Len(names)] ==
        IF k = 0 THEN table ELSE AddName(added[k - 1], names[k], id)
  IN  IF AcceptsAliases(id, aliases) THEN added[Len(names)] ELSE Collision

\* The loop over raw.Models, in the order in which Go happens to visit the map.
NameTable(order, aliases) ==
  LET table[k \in 0 .. Len(order)] ==
        IF k = 0 THEN {} ELSE IF table[k - 1] = Collision THEN Collision
        ELSE AddModel(table[k - 1], order[k], aliases[order[k]])
  IN  table[Len(order)]

\* The loop over cfg.Preload: ids, not aliases.
AcceptsPreload(ids, preload) == preload \subseteq ids

\* Config.Index: the same table without the checks, the last writer wins.
IndexTable(order, aliases) ==
  LET writes(id) == {<<id, id>>} \cup {<<aliases[id][i], id>> : i \in 1 .. Len(aliases[id])}
      table[k \in 0 .. Len(order)] ==
        IF k = 0 THEN {}
        ELSE {e \in table[k - 1] : \A w \in writes(order[k]) : w[1] # e[1]}
             \cup writes(order[k])
  IN  table[Len(order)]

\* Config.Resolve: the id behind a name.
Resolves(table, name) == \E e \in table : e[1] = name
Resolve(table, name)  == (CHOOSE e \in table : e[1] = name)[2]
=============================================================================
