-------------------------- MODULE TargetsManifest ---------------------------
(***************************************************************************)
(* parse_targets_metadata (aknano_targets_manifest.c): the entries of the  *)
(* TUF targets file are visited in order, and selected_target becomes the  *)
(* newest one so far that fits the device.                                 *)
(*                                                                         *)
(* A target is a record: fields says which of its JSON fields are present  *)
(* and well formed ("json" stands for the entry itself), version, hwids    *)
(* and tags are their values.  A name is a sequence of characters.         *)
(***************************************************************************)
EXTENDS Integers, Sequences, SequencesExt

CONSTANTS
    Targets,                    \* the entries a manifest may have
    MaxTargets,                 \* how many of them
    hwid, tag,                  \* the device's hardware id and its current tag
    JSON_ARRAY_LIMIT_COUNT

ASSUME LimitAssumption == JSON_ARRAY_LIMIT_COUNT \in Nat

AllFields == {"json", "version", "hwids", "tags", "sha256", "length"}

ASSUME TargetsAssumption ==
    \A t \in Targets : /\ t.fields \subseteq AllFields
                       /\ t.version \in Nat
                       /\ Len(t.hwids) \in Nat
                       /\ Len(t.tags) \in Nat

ASSUME NamesAssumption == hwid \in Seq(STRING) /\ tag \in Seq(STRING)

VARIABLES
    manifest,       \* the entries, in the order JSON_Iterate yields them
    next,           \* the entry to visit
    selected,       \* selected_target.version
    state           \* "parsing", "done", "cut" (an entry was in error) or
                    \* "rejected" (the document was)

vars == <<manifest, next, selected, state>>

\* strncmp(entry, wanted, entry_length) compares no further than the entry.
Fits(entry, wanted) == IsPrefix(entry, wanted)

\* Only the first JSON_ARRAY_LIMIT_COUNT elements are looked at.
AnyFits(names, wanted) ==
    \E i \in 1 .. Len(names) :
        i =< JSON_ARRAY_LIMIT_COUNT /\ Fits(names[i], wanted)

\* A slip: found_match is not reset before the tags are searched.
SlipFoundMatch(t) ==
    \/ t.version =< selected
    \/ "hwids" \in t.fields /\ ~AnyFits(t.hwids, hwid)

\* A slip: an entry of the selected version or an older one is taken too.
SlipSkipped(t) ==
    \/ "hwids" \in t.fields /\ ~AnyFits(t.hwids, hwid)
    \/ {"hwids", "tags"} \subseteq t.fields /\ ~AnyFits(t.tags, tag)

\* tuf_parse_single_target looks at the fields in a fixed order and returns at
\* the first that decides.  It skips an entry that is not newer or fits no more,
Skipped(t) ==
    \/ t.version =< selected
    \/ "hwids" \in t.fields /\ ~AnyFits(t.hwids, hwid)
    \/ {"hwids", "tags"} \subseteq t.fields /\ ~AnyFits(t.tags, tag)

\* and gives up on one that is malformed where it looks.  A missing length is
\* not an error.
Malformed(t) ==
    \/ ~({"json", "version"} \subseteq t.fields)
    \/ ~Skipped(t) /\ ~({"hwids", "tags", "sha256"} \subseteq t.fields)

Selects(t) == ~Malformed(t) /\ ~Skipped(t) /\ "length" \in t.fields

tuf_parse_single_target(t) ==
    /\ selected' = IF Selects(t) THEN t.version ELSE selected
    /\ state' = IF Malformed(t) THEN "cut" ELSE "parsing"

\* A slip: the entry that follows a selected one is stepped over.
SlipParseNext ==
    /\ state = "parsing"
    /\ next =< Len(manifest)
    /\ tuf_parse_single_target(manifest[next])
    /\ next' = IF selected' = selected THEN next + 1 ELSE next + 2
    /\ UNCHANGED manifest

ParseNext ==
    /\ state = "parsing"
    /\ next =< Len(manifest)
    /\ tuf_parse_single_target(manifest[next])
    /\ next' = next + 1
    /\ UNCHANGED manifest

AllParsed ==
    /\ state = "parsing"
    /\ next > Len(manifest)
    /\ state' = "done"
    /\ UNCHANGED <<manifest, next, selected>>

\* No tag, or a document that is not valid or has no targets: nothing is
\* selected, and the caller does not look at the error.
Rejected ==
    /\ state = "parsing"
    /\ next = 1
    /\ state' = "rejected"
    /\ UNCHANGED <<manifest, next, selected>>

Init ==
    /\ manifest \in BoundedSeq(Targets, MaxTargets)
    /\ next = 1
    /\ selected = 0
    /\ state = "parsing"

Next == ParseNext \/ AllParsed \/ Rejected

Spec == Init /\ [][Next]_vars

-----------------------------------------------------------------------------
(* Properties.                                                             *)

TypeOK ==
    /\ manifest \in Seq(Targets)
    /\ next \in 1 .. Len(manifest) + 1
    /\ selected \in Nat
    /\ state \in {"parsing", "done", "cut", "rejected"}

\* The targets the code means to choose from.
Acceptable(t) ==
    /\ t.fields = AllFields
    /\ AnyFits(t.hwids, hwid)
    /\ AnyFits(t.tags, tag)

\* At every moment the selected version is that of an acceptable entry visited
\* so far, and no acceptable entry visited so far is newer: neither the order
\* of the entries nor what stands between them matters.
NewestVisited ==
    /\ selected # 0 => \E i \in 1 .. next - 1 :
                          Acceptable(manifest[i]) /\ manifest[i].version = selected
    /\ \A i \in 1 .. next - 1 :
          Acceptable(manifest[i]) => manifest[i].version =< selected

\* The targets made for this device and tag, by name.
Matches(t) ==
    /\ t.fields = AllFields
    /\ hwid \in {t.hwids[i] : i \in 1 .. Len(t.hwids)}
    /\ tag \in {t.tags[i] : i \in 1 .. Len(t.tags)}

\* "Check-in to device gateway, and select target with the highest version that
\* matches the current tag and hardware type": no matching entry is newer than
\* the selected one when the parser is done.
NoNewerMatch ==
    state \in {"done", "cut"} =>
        \A i \in 1 .. Len(manifest) :
            Matches(manifest[i]) => manifest[i].version =< selected

\* An array that is read to its end and holds no abbreviation of the wanted name.
ReadAsMeant(names, wanted) ==
    /\ Len(names) =< JSON_ARRAY_LIMIT_COUNT
    /\ \A i \in 1 .. Len(names) : Fits(names[i], wanted) => names[i] = wanted

Clean(t) ==
    /\ t.fields = AllFields
    /\ ReadAsMeant(t.hwids, hwid)
    /\ ReadAsMeant(t.tags, tag)

\* In a manifest of clean entries the comment holds: what is selected at any
\* moment matches the device and its tag, every entry is visited, and in the
\* end no matching entry is newer.
CleanManifestSelectsNewest ==
    (\A i \in 1 .. Len(manifest) : Clean(manifest[i])) =>
        /\ state # "cut"
        /\ selected # 0 => \E i \in 1 .. Len(manifest) :
                              Matches(manifest[i]) /\ manifest[i].version = selected
        /\ NoNewerMatch
=============================================================================
