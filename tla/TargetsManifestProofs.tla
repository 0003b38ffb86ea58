----------------------- MODULE TargetsManifestProofs ------------------------
(***************************************************************************)
(* What holds of TargetsManifest for every manifest of every length, every *)
(* hardware id, tag and array limit: the selected version is always that   *)
(* of the newest acceptable entry visited.                                 *)
(***************************************************************************)
EXTENDS TargetsManifest, TLAPS

\* An entry is taken exactly when it is acceptable and newer than the selected
\* one: the early returns of tuf_parse_single_target test nothing else.
LEMMA SelectsIff ==
    ASSUME NEW t \in Targets
    PROVE  Selects(t) <=> Acceptable(t) /\ ~(t.version =< selected)
  <1>1. t.fields \subseteq AllFields
    BY TargetsAssumption
  <1>2. ASSUME Selects(t)
        PROVE  Acceptable(t) /\ ~(t.version =< selected)
    <2>1. t.fields = AllFields
      BY <1>1, <1>2, Zenon DEF Selects, Malformed, AllFields
    <2>2. AnyFits(t.hwids, hwid) /\ AnyFits(t.tags, tag)
      BY <1>2, <2>1, Zenon DEF Selects, Skipped, AllFields
    <2>3. QED
      BY <1>2, <2>1, <2>2, Zenon DEF Selects, Skipped, Acceptable
  <1>3. ASSUME Acceptable(t), ~(t.version =< selected)
        PROVE  Selects(t)
    BY <1>3, Zenon DEF Acceptable, Selects, Skipped, Malformed, AllFields
  <1>4. QED
    BY <1>2, <1>3, Zenon

\* Every variable keeps its type, and the index of the entry to visit never
\* runs past the end of the manifest by more than one.
THEOREM ManifestTypeCorrect == Spec => []TypeOK
  <1>1. Init => TypeOK
    <2>1. ASSUME Init PROVE manifest \in Seq(Targets)
      BY <2>1 DEF Init, BoundedSeq, SeqOf
    <2>2. ASSUME Init PROVE 1 \in 1 .. Len(manifest) + 1
      BY <2>1, <2>2
    <2>3. QED
      BY <2>1, <2>2 DEF Init, TypeOK
  <1>2. TypeOK /\ [Next]_vars => TypeOK'
    <2> SUFFICES ASSUME TypeOK, [Next]_vars PROVE TypeOK'
      OBVIOUS
    <2> USE DEF TypeOK
    <2>1. CASE ParseNext
      <3>1. manifest[next] \in Targets /\ manifest[next].version \in Nat
        BY <2>1, TargetsAssumption DEF ParseNext
      <3>2. selected' \in Nat /\ state' \in {"parsing", "cut"}
        BY <2>1, <3>1 DEF ParseNext, tuf_parse_single_target
      <3>3. QED
        BY <2>1, <3>2 DEF ParseNext
    <2>2. CASE AllParsed
      BY <2>2 DEF AllParsed
    <2>3. CASE Rejected
      BY <2>3 DEF Rejected
    <2>4. CASE UNCHANGED vars
      BY <2>4 DEF vars
    <2>5. QED
      BY <2>1, <2>2, <2>3, <2>4 DEF Next
  <1>3. QED
    BY <1>1, <1>2, PTL DEF Spec

\* For every manifest, in whatever order its entries are iterated and whatever
\* malformed or foreign entries stand between them, selected_target is the
\* newest acceptable entry among those visited.
THEOREM SelectsNewestVisited == Spec => []NewestVisited
  <1>1. Init => NewestVisited
    BY DEF Init, NewestVisited
  <1>2. TypeOK /\ NewestVisited /\ [Next]_vars => NewestVisited'
    <2> SUFFICES ASSUME TypeOK, NewestVisited, [Next]_vars
                 PROVE  NewestVisited'
      OBVIOUS
    <2>1. CASE ParseNext
      <3> DEFINE t == manifest[next]
      <3>1. /\ next \in 1 .. Len(manifest) /\ Len(manifest) \in Nat
            /\ t \in Targets /\ t.version \in Nat /\ selected \in Nat
        BY <2>1, TargetsAssumption DEF ParseNext, TypeOK
      <3>2. /\ manifest' = manifest /\ next' = next + 1
            /\ selected' = IF Selects(t) THEN t.version ELSE selected
        BY <2>1 DEF ParseNext, tuf_parse_single_target
      <3>3. 1 .. next' - 1 = (1 .. next - 1) \cup {next}
        BY <3>1, <3>2
      <3>4. \A i \in 1 .. next - 1 : manifest[i] \in Targets
        BY <3>1 DEF TypeOK
      <3>5. \A i \in 1 .. next - 1 : manifest[i].version \in Nat
        BY <3>4, TargetsAssumption
      <3> HIDE DEF t
      <3>6. CASE Selects(t)
        <4>1. Acceptable(t) /\ t.version > selected /\ selected' = t.version
          BY <3>1, <3>2, <3>6, SelectsIff
        <4>2. \A i \in 1 .. next - 1 :
                 Acceptable(manifest[i]) => manifest[i].version =< selected'
          BY <3>1, <3>5, <4>1 DEF NewestVisited
        <4>3. \A i \in 1 .. next' - 1 :
                 Acceptable(manifest[i]) => manifest[i].version =< selected'
          BY <3>1, <3>3, <4>1, <4>2 DEF t
        <4>4. \E i \in 1 .. next' - 1 :
                 Acceptable(manifest[i]) /\ manifest[i].version = selected'
          BY <3>3, <4>1 DEF t
        <4>5. QED
          BY <3>2, <4>3, <4>4 DEF NewestVisited, Acceptable
      <3>7. CASE ~Selects(t)
        <4>1. selected' = selected
          BY <3>2, <3>7
        <4>2. Acceptable(t) => t.version =< selected
          BY <3>1, <3>7, SelectsIff
        <4>3. \A i \in 1 .. next' - 1 :
                 Acceptable(manifest[i]) => manifest[i].version =< selected
          BY <3>3, <4>2 DEF NewestVisited, t
        <4>4. selected # 0 =>
                 \E i \in 1 .. next' - 1 :
                    Acceptable(manifest[i]) /\ manifest[i].version = selected
          BY <3>3 DEF NewestVisited
        <4>5. QED
          BY <3>2, <4>1, <4>3, <4>4 DEF NewestVisited, Acceptable
      <3>8. QED
        BY <3>6, <3>7
    <2>2. CASE AllParsed
      BY <2>2 DEF AllParsed, NewestVisited, Acceptable
    <2>3. CASE Rejected
      BY <2>3 DEF Rejected, NewestVisited, Acceptable
    <2>4. CASE UNCHANGED vars
      BY <2>4 DEF vars, NewestVisited, Acceptable
    <2>5. QED
      BY <2>1, <2>2, <2>3, <2>4 DEF Next
  <1>3. QED
    BY <1>1, <1>2, ManifestTypeCorrect, PTL DEF Spec

\* A manifest without surprises is read to its end.
ReadToTheEnd ==
    (\A i \in 1 .. Len(manifest) : Clean(manifest[i])) =>
        state # "cut" /\ (state = "done" => next > Len(manifest))

LEMMA CleanIsRead == Spec => []ReadToTheEnd
  <1>1. Init => ReadToTheEnd
    BY DEF Init, ReadToTheEnd
  <1>2. TypeOK /\ ReadToTheEnd /\ [Next]_vars => ReadToTheEnd'
    <2> SUFFICES ASSUME TypeOK, ReadToTheEnd, [Next]_vars,
                        \A i \in 1 .. Len(manifest') : Clean(manifest'[i])
                 PROVE  /\ state' # "cut"
                        /\ state' = "done" => next' > Len(manifest')
      BY DEF ReadToTheEnd, Clean, ReadAsMeant
    <2>1. manifest' = manifest
      BY DEF Next, ParseNext, AllParsed, Rejected, vars
    <2>2. CASE ParseNext
      <3>1. Clean(manifest[next])
        BY <2>1, <2>2 DEF ParseNext, TypeOK
      <3>2. ~Malformed(manifest[next])
        BY <3>1 DEF Clean, Malformed, AllFields
      <3>3. QED
        BY <2>2, <3>2 DEF ParseNext, tuf_parse_single_target
    <2>3. CASE AllParsed
      BY <2>3 DEF AllParsed
    <2>4. CASE Rejected
      BY <2>4 DEF Rejected
    <2>5. CASE UNCHANGED vars
      BY <2>1, <2>5 DEF vars, ReadToTheEnd
    <2>6. QED
      BY <2>2, <2>3, <2>4, <2>5 DEF Next
  <1>3. QED
    BY <1>1, <1>2, ManifestTypeCorrect, PTL DEF Spec

\* Where arrays are read as meant, the bounded and abbreviating comparison finds
\* a name exactly when it is there.
LEMMA AnyFitsIff ==
    ASSUME NEW names, NEW wanted \in Seq(STRING), Len(names) \in Nat,
           ReadAsMeant(names, wanted)
    PROVE  AnyFits(names, wanted) <=> wanted \in {names[i] : i \in 1 .. Len(names)}
  <1>1. Fits(wanted, wanted)
    BY DEF Fits, IsPrefix
  <1>2. \A i \in 1 .. Len(names) : i =< JSON_ARRAY_LIMIT_COUNT
    BY LimitAssumption DEF ReadAsMeant
  <1>3. \A i \in 1 .. Len(names) : Fits(names[i], wanted) <=> names[i] = wanted
    BY <1>1 DEF ReadAsMeant
  <1>4. QED
    BY <1>2, <1>3 DEF AnyFits

\* For every manifest of clean entries, of any length and in any order, the
\* selected target matches and no matching one is newer.
THEOREM CleanSelectsNewest == Spec => []CleanManifestSelectsNewest
  <1>1. ASSUME NEW t \in Targets, Clean(t)
        PROVE  Acceptable(t) <=> Matches(t)
    <2>1. Len(t.hwids) \in Nat /\ Len(t.tags) \in Nat
      BY TargetsAssumption
    <2>2. AnyFits(t.hwids, hwid) <=> hwid \in {t.hwids[i] : i \in 1 .. Len(t.hwids)}
      BY <1>1, <2>1, NamesAssumption, AnyFitsIff DEF Clean
    <2>3. AnyFits(t.tags, tag) <=> tag \in {t.tags[i] : i \in 1 .. Len(t.tags)}
      BY <1>1, <2>1, NamesAssumption, AnyFitsIff DEF Clean
    <2>4. QED
      BY <2>2, <2>3, Zenon DEF Acceptable, Matches
  <1>2. TypeOK /\ NewestVisited /\ ReadToTheEnd => CleanManifestSelectsNewest
    <2> SUFFICES ASSUME TypeOK, NewestVisited, ReadToTheEnd,
                        \A i \in 1 .. Len(manifest) : Clean(manifest[i])
                 PROVE  /\ state # "cut"
                        /\ selected # 0 =>
                              \E i \in 1 .. Len(manifest) :
                                 /\ Matches(manifest[i])
                                 /\ manifest[i].version = selected
                        /\ NoNewerMatch
      BY DEF CleanManifestSelectsNewest
    <2>1. /\ state # "cut"
          /\ state = "done" => next > Len(manifest)
      BY DEF ReadToTheEnd
    <2>2. \A i \in 1 .. Len(manifest) :
             manifest[i] \in Targets /\ Clean(manifest[i])
      BY DEF TypeOK
    <2>3. \A i \in 1 .. Len(manifest) : Acceptable(manifest[i]) <=> Matches(manifest[i])
      BY <1>1, <2>2
    <2>4. next \in 1 .. Len(manifest) + 1 /\ Len(manifest) \in Nat
      BY DEF TypeOK
    <2>5. \A i \in 1 .. next - 1 : i \in 1 .. Len(manifest)
      BY <2>4
    <2>6. ASSUME selected # 0
          PROVE  \E i \in 1 .. Len(manifest) :
                    Matches(manifest[i]) /\ manifest[i].version = selected
      BY <2>3, <2>5, <2>6 DEF NewestVisited
    <2>7. NoNewerMatch
      <3> SUFFICES ASSUME state = "done", NEW i \in 1 .. Len(manifest),
                          Matches(manifest[i])
                   PROVE  manifest[i].version =< selected
        BY <2>1 DEF NoNewerMatch
      <3>1. i \in 1 .. next - 1
        BY <2>1, <2>4
      <3>2. QED
        BY <2>3, <3>1 DEF NewestVisited
    <2>8. QED
      BY <2>1, <2>6, <2>7
  <1>3. QED
    BY <1>2, ManifestTypeCorrect, SelectsNewestVisited, CleanIsRead, PTL
=============================================================================
