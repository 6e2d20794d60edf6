------------------------------- MODULE Mirror -------------------------------
(***************************************************************************)
(* What an index with a watcher promises, without hashes, a cache, events, *)
(* timers and batches: rows that copy the files, file by file, behind them *)
(* only where a file is due.                                               *)
(***************************************************************************)
CONSTANTS Paths, Versions, None,
          Doubtful   \* files that an index may take for another content

VARIABLES disk,      \* the content of each file
          rows,      \* the content the rows of each file are of
          watching,  \* TRUE while changes are seen
          due,       \* the files to be copied again
          held,      \* the file being copied, as it was read
          missed     \* the files whose rows nothing is promised of

mvars == <<disk, rows, watching, due, held, missed>>

Copies == [Paths -> Versions \cup {None}]
Nothing == [p \in Paths |-> None]
Free == [path |-> None, source |-> None]

MInit ==
  /\ disk \in Copies /\ rows = Nothing /\ watching = FALSE
  /\ due = {} /\ held = Free /\ missed = {}

\* Somebody changes a file.
Change(p, v) ==
  /\ disk' = [disk EXCEPT ![p] = v]
  /\ due' = IF watching THEN due \cup {p} ELSE due
  /\ missed' = IF watching THEN missed \ {p} ELSE missed \cup {p}
  /\ UNCHANGED <<rows, watching, held>>

\* The rows of every file are made those of its content.
CopyAll ==
  /\ watching' = TRUE
  /\ rows' \in Copies /\ \A p \in Paths \ missed' : rows'[p] = disk[p]

\* A new copy of everything is begun, and perhaps finished at once.
Begin ==
  /\ held = Free
  /\ due' = {} /\ missed' \in SUBSET Doubtful
  /\ CopyAll \/ (watching' = FALSE /\ rows' = Nothing)
  /\ UNCHANGED <<disk, held>>

Finish ==
  /\ ~watching
  /\ CopyAll
  /\ UNCHANGED <<disk, due, held, missed>>

\* A due file is read
Hold(p) ==
  /\ held = Free /\ p \in due /\ disk[p] # None
  /\ held' = [path |-> p, source |-> disk[p]]
  /\ UNCHANGED <<disk, rows, watching, due, missed>>

\* and copied: it stays due if it has changed since.
Put ==
  /\ held # Free
  /\ rows' = [rows EXCEPT ![held.path] = held.source]
  /\ due' \in {due, due \ {held.path}}
  /\ held.source # disk[held.path] => held.path \in due'
  /\ held' = Free
  /\ UNCHANGED <<disk, watching, missed>>

\* A due file that is gone loses its rows.
Drop(p) ==
  /\ held = Free /\ p \in due /\ disk[p] = None
  /\ rows' = [rows EXCEPT ![p] = None]
  /\ due' \in {due, due \ {p}}
  /\ UNCHANGED <<disk, watching, held, missed>>

MNext ==
  \/ Begin \/ Finish \/ Put
  \/ \E p \in Paths : Hold(p) \/ Drop(p) \/ \E v \in Versions \cup {None} : Change(p, v)

MSpec == MInit /\ [][MNext]_mvars
=============================================================================
