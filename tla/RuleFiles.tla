------------------------------ MODULE RuleFiles ------------------------------
(***************************************************************************)
(* The rule files and their hot reload (config/loader.py): the listener's   *)
(* thread compares the files with the hashes it has, reads all of them one  *)
(* by one and installs rules and hashes, while somebody edits the files.    *)
(***************************************************************************)
EXTENDS Matching

CONSTANTS Files, Contents,  \* what a file may hold: sets of rule documents
          Broken,           \* contents that is not YAML
          Absent

ASSUME FilesAssumption == Absent \notin Contents /\ Broken \subseteq Contents

VARIABLES disk,      \* the files
          rules,     \* self.rules and its index by topic
          hashes,    \* _file_hashes: the contents whose hash is kept
          reading,   \* reload() in progress
          unread,    \* auxiliary: the files with a hash of contents that the rules
                     \* in force were not read from
          edits      \* bound: the edits that may still come, in any order

fileVars == <<disk, rules, hashes, reading, unread, edits>>

NoHashes == [f \in Files |-> Absent]
Idle == [todo |-> {}, file |-> Absent, seen |-> Absent, rules |-> {}, hashes |-> NoHashes,
         noticed |-> {}, unread |-> {}]
Present(d) == {f \in Files : d[f] # Absent}
Loadable(v) == v \notin Broken \cup {Absent}
OnDisk == UNION {RulesIn(disk[f]) : f \in {g \in Files : Loadable(disk[g])}}

FilesInit ==
    /\ rules = OnDisk /\ hashes = [f \in Files |-> IF Loadable(disk[f]) THEN disk[f] ELSE Absent]
    /\ reading = Idle /\ unread = {}

Edit(f) ==
    /\ \E v \in (Contents \cup {Absent}) \ {disk[f]} :
        <<f, v>> \in edits /\ edits' = edits \ {<<f, v>>} /\ disk' = [disk EXCEPT ![f] = v]
    /\ UNCHANGED <<rules, hashes, reading, unread>>

-----------------------------------------------------------------------------
\* _check_files_changed: removed files, then new ones, then the first of the
\* others that differs; what it has noticed it takes off the hashes at once.
Removed == Present(hashes) \ Present(disk)
Added   == Present(disk) \ Present(hashes)
Altered == {f \in Present(disk) \cap Present(hashes) : disk[f] # hashes[f]}

\* Mutant of FilesChanged: only names are compared.
NamesChanged == Removed # {} \/ Added # {}

FilesChanged == Removed # {} \/ Added # {} \/ Altered # {}
Noticed ==
    IF Removed # {} THEN hashes' = [f \in Files |-> IF f \in Removed THEN Absent ELSE hashes[f]]
    ELSE IF Added # {} THEN UNCHANGED hashes
    ELSE \E f \in Altered : hashes' = [hashes EXCEPT ![f] = disk[f]]

FindChange ==
    /\ FilesChanged /\ Noticed
    /\ reading' = [Idle EXCEPT !.todo = Present(disk), !.noticed = {f \in Files : hashes'[f] # hashes[f]}]
    /\ UNCHANGED <<disk, rules, unread, edits>>

\* One file: its rules are read and kept, then its hash is read from the disk
\* again.  A file that does not load has neither.
Load(f) ==
    /\ f \in reading.todo /\ reading.file = Absent
    /\ reading' = IF Loadable(disk[f])
                  THEN [reading EXCEPT !.todo = @ \ {f}, !.file = f, !.seen = disk[f],
                                       !.rules = @ \cup RulesIn(disk[f])]
                  ELSE [reading EXCEPT !.todo = @ \ {f}]
    /\ UNCHANGED <<disk, rules, hashes, unread, edits>>
EditedWhileRead == disk[reading.file] # reading.seen
Hash ==
    /\ reading.file # Absent
    /\ reading' = [reading EXCEPT !.file = Absent, !.seen = Absent,
                                  !.hashes[reading.file] = disk[reading.file],
                                  !.unread = @ \cup IF EditedWhileRead THEN {reading.file} ELSE {}]
    /\ UNCHANGED <<disk, rules, hashes, unread, edits>>

AllRead == reading.todo = {} /\ reading.file = Absent
Install ==
    /\ AllRead /\ Sortable(reading.rules)
    /\ rules' = reading.rules /\ hashes' = reading.hashes /\ unread' = reading.unread
    /\ reading' = Idle
    /\ UNCHANGED <<disk, edits>>

\* The sort of numbers with words raises, out of reload() and into the loop; what
\* the check has noticed stays noticed.
CannotSort ==
    /\ AllRead /\ ~Sortable(reading.rules)
    /\ reading' = Idle /\ unread' = unread \cup reading.noticed
    /\ UNCHANGED <<disk, rules, hashes, edits>>

\* A file counts as loaded that is not: it was edited between its load and its
\* hash, or its change was noticed and the reload failed over another file.
TakenForLoaded == \E f \in unread : hashes[f] = disk[f]
=============================================================================
