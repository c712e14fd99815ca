------------------------------ MODULE BatchSort ------------------------------
(***************************************************************************)
(* Sorting the accepted files of the batch list: executeSorting in         *)
(* BatchReview.svelte, executeBatch in lib/batch/store.svelte.ts, and the  *)
(* Rust command execute_batch, which moves one file after the other and    *)
(* answers once for all of them.  The file system is a function from paths *)
(* to contents; the content of an item is the item itself.                 *)
(***************************************************************************)
EXTENDS Sequences, FiniteSets, Integers

CONSTANTS
  Items,      \* the files of the list
  Order,      \* the list: a sequence of all items
  TextItems,  \* those whose own extension is .txt
  Names,      \* what the path template makes of author, year and title
  Sorts,      \* bound: clicks on the sort button that get to the question, 1 .. n
  Modes,      \* bound: of "move", "copy" and "script_move"
  MaxEdits,   \* bound: edits of the metadata
  Text,       \* the extracted text of some item
  Nothing     \* no file at a path

ASSUME SortAssumption ==
  /\ IsFiniteSet(Items) /\ TextItems \subseteq Items
  /\ Order \in Seq(Items) /\ \A i \in Items : \E k \in DOMAIN Order : Order[k] = i
  /\ \A j, k \in DOMAIN Order : Order[j] = Order[k] => j = k
  /\ Sorts \subseteq Nat
  /\ Modes \subseteq {"move", "copy", "script_move"}
  /\ Nothing \notin Items /\ Text \notin Items /\ Text # Nothing

VARIABLES
  files,      \* the file system
  item,       \* the BatchItem objects
  saved,      \* the status in their rows
  executing,  \* isExecuting
  sort,       \* the calls of executeSorting
  indexAt,    \* where the search index says the file is
  edits,      \* counts towards MaxEdits
  sentTo,     \* history: the path a done item was sent to; Nothing for a script
  trampled,   \* history: items a copy of which another content replaced
  muddled     \* history: two sorts ran at once, or the app was closed during one

vars == <<files, item, saved, executing, sort, indexAt, edits, sentTo, trampled, muddled>>

Source(i) == <<"source", i>>
\* The target of a text file and the text sidecar of another share a name.
Target(i, name) == <<IF i \in TextItems THEN "text" ELSE "file", name>>
Sidecar(name) == <<"text", name>>
Paths == ({"source"} \X Items) \cup ({"file", "text"} \X Names)

\* Mutants: what is done is sorted again; a failure counts as sorted.
SortableAll == {"review", "error", "unfinished", "queued", "done"}
SuccessAny == {"ok", "copied", "undeleted", "failed"}

Sortable == {"review", "error", "unfinished", "queued"}
Result == {"ok", "copied", "undeleted", "missing", "failed"}
Success == {"ok", "copied", "undeleted"}

\* "asking": the question and the folder permissions.  "checking" ..
\* "removing": execute_batch at the first item of todo.  "answered": the
\* results are on their way.
SortPhase == {"unused", "asking", "checking", "writing", "removing", "answered", "over"}
\* A call that has not begun, or is over.
AtRest(pc, mode) == [pc |-> pc, mode |-> mode, todo |-> <<>>,
                     aim |-> [i \in {} |-> Nothing], result |-> [i \in {} |-> "ok"]]

TypeOK ==
  /\ files \in [Paths -> Items \cup {Text, Nothing}]
  /\ item \in [Items -> [status : {"review", "done", "error"}, name : Names]]
  /\ saved \in [Items -> {"review", "done", "error"}]
  /\ indexAt \in [Items -> Paths]
  /\ \A n \in Sorts :
       /\ sort[n].pc \in SortPhase /\ sort[n].mode \in Modes \cup {"move"}
       /\ sort[n].todo \in Seq(Items)
       /\ \A i \in DOMAIN sort[n].result : sort[n].result[i] \in Result

\* Bound: the files begin with one name, so that their targets collide.
Init ==
  /\ files = [p \in Paths |-> IF p[1] = "source" THEN p[2] ELSE Nothing]
  /\ \E name \in Names : item = [i \in Items |-> [status |-> "review", name |-> name]]
  /\ saved = [i \in Items |-> "review"]
  /\ executing = FALSE /\ edits = 0 /\ trampled = {} /\ muddled = FALSE
  /\ sort = [n \in Sorts |-> AtRest("unused", "move")]
  /\ indexAt = [i \in Items |-> Source(i)]
  /\ sentTo = [i \in Items |-> Nothing]

-----------------------------------------------------------------------------
InRust(n) == sort[n].pc \in {"checking", "writing", "removing"}
Begun(n) == InRust(n) \/ sort[n].pc = "answered"
Current(n) == Head(sort[n].todo)
Goal(n) == sort[n].aim[Current(n)]

\* What is written to path p replaces what was there.
Trample(p, content) ==
  trampled' = trampled \cup (IF files[p] \in Items \ {content} THEN {files[p]} ELSE {})
Put(p, content) == files' = [files EXCEPT ![p] = content] /\ Trample(p, content)

\* The current item has its result; the next one is looked at.
Settle(n, result) ==
  LET s == sort[n] IN
  sort' = [sort EXCEPT ![n] = [s EXCEPT
             !.result = [i \in DOMAIN s.result \cup {Current(n)} |->
                           IF i = Current(n) THEN result ELSE s.result[i]],
             !.todo = Tail(s.todo),
             !.pc = IF Len(s.todo) = 1 THEN "answered" ELSE "checking"]]

-----------------------------------------------------------------------------
(* The panel *)

\* executeSorting up to its question.  isExecuting is tested before the answer.
Click(n, mode) ==
  /\ ~executing
  /\ sort[n].pc = "unused" /\ \A m \in Sorts : m < n => sort[m].pc # "unused"
  /\ sort' = [sort EXCEPT ![n] = AtRest("asking", mode)]
  /\ UNCHANGED <<files, item, saved, executing, indexAt, edits, sentTo, trampled, muddled>>

\* The user declines, nothing is sortable any more, or the command refuses the
\* whole batch and the finally block resets the flag.
Decline(n) ==
  /\ sort[n].pc = "asking"
  /\ executing' \in {executing, FALSE}
  /\ sort' = [sort EXCEPT ![n] = AtRest("over", "move")]
  /\ UNCHANGED <<files, item, saved, indexAt, edits, sentTo, trampled, muddled>>

\* Items in the order of the list.
Listed(ids) ==
  {todo \in [1 .. Cardinality(ids) -> ids] :
     \A j, k \in DOMAIN todo : j < k =>
       \E p, q \in DOMAIN Order : p < q /\ Order[p] = todo[j] /\ Order[q] = todo[k]}

\* executeBatch: the payload holds the targets of this moment.  A script is
\* written at once; it moves nothing.
Begin(n) ==
  LET due == {i \in Items : item[i].status \in Sortable}
      script == sort[n].mode = "script_move"
  IN
  /\ sort[n].pc = "asking" /\ due # {}
  /\ executing' = TRUE
  /\ \E todo \in Listed(due) :
       sort' = [sort EXCEPT ![n] =
         [pc |-> IF script THEN "answered" ELSE "checking", mode |-> sort[n].mode,
          todo |-> IF script THEN <<>> ELSE todo,
          aim |-> [i \in due |-> item[i].name],
          result |-> IF script THEN [i \in due |-> "ok"] ELSE sort[n].result]]
  /\ muddled' = (muddled \/ \E m \in Sorts \ {n} : Begun(m))
  /\ UNCHANGED <<files, item, saved, indexAt, edits, sentTo, trampled>>

\* The results are applied to whatever the items are by now.  A source that
\* could not be deleted counts as moved; the index is told the target the item
\* has now.  held: whether isExecuting stays set.
ApplyWith(n, held) ==
  LET r == sort[n].result
      won == {i \in DOMAIN r : r[i] \in Success}
      told == {i \in won : sort[n].mode # "copy" /\ r[i] # "copied"}
  IN
  /\ sort[n].pc = "answered"
  /\ item' = [i \in Items |-> IF i \notin DOMAIN r THEN item[i]
                              ELSE [item[i] EXCEPT !.status = IF i \in won THEN "done" ELSE "error"]]
  /\ sentTo' = [i \in Items |-> IF i \notin won THEN sentTo[i]
                                ELSE IF sort[n].mode = "script_move" THEN Nothing
                                ELSE Target(i, sort[n].aim[i])]
  /\ \E heard \in {told, {}} :
       indexAt' = [i \in Items |-> IF i \in heard THEN Target(i, item[i].name) ELSE indexAt[i]]
  /\ \E kept \in BOOLEAN :
       saved' = [i \in Items |-> IF kept /\ i \in DOMAIN r THEN item'[i].status ELSE saved[i]]
  /\ executing' = held
  /\ sort' = [sort EXCEPT ![n] = AtRest("over", "move")]
  /\ UNCHANGED <<files, edits, trampled, muddled>>

\* Mutant: the flag is not reset.
ApplyHolding(n) == ApplyWith(n, executing)
Apply(n) == ApplyWith(n, FALSE)

\* recalculateTargetPath, while anything else goes on
Edit(i) ==
  /\ edits < MaxEdits /\ edits' = edits + 1
  /\ \E name \in Names \ {item[i].name} : item' = [item EXCEPT ![i].name = name]
  /\ UNCHANGED <<files, saved, executing, sort, indexAt, sentTo, trampled, muddled>>

\* forceReset
ForceReset ==
  /\ executing
  /\ executing' = FALSE
  /\ UNCHANGED <<files, item, saved, sort, indexAt, edits, sentTo, trampled, muddled>>

\* The app is closed and started again.
Restart ==
  /\ \E n \in Sorts : Begun(n)
  /\ sort' = [n \in Sorts |-> IF sort[n].pc = "unused" THEN sort[n] ELSE AtRest("over", "move")]
  /\ item' = [i \in Items |-> [item[i] EXCEPT !.status = saved[i]]]
  /\ executing' = FALSE /\ muddled' = TRUE
  /\ sentTo' = [i \in Items |-> IF saved[i] = "done" THEN sentTo[i] ELSE Nothing]
  /\ UNCHANGED <<files, saved, indexAt, edits, trampled>>

-----------------------------------------------------------------------------
(* execute_batch *)

\* The source is missing, or the folder of the target cannot be made.
Refuse(n) ==
  /\ sort[n].pc = "checking"
  /\ \E why \in {"missing", "failed"} :
       /\ why = "missing" <=> files[Source(Current(n))] = Nothing
       /\ Settle(n, why)
  /\ UNCHANGED <<files, item, saved, executing, indexAt, edits, sentTo, trampled, muddled>>

\* The text goes beside the target, unless the source is itself a text file.
WriteSidecar(n) ==
  /\ sort[n].pc = "checking" /\ files[Source(Current(n))] # Nothing
  /\ \/ Current(n) \notin TextItems /\ Put(Sidecar(Goal(n)), Text)
     \/ UNCHANGED <<files, trampled>>
  /\ sort' = [sort EXCEPT ![n].pc = "writing"]
  /\ UNCHANGED <<item, saved, executing, indexAt, edits, sentTo, muddled>>

\* fs::rename, on one volume
Rename(n) ==
  LET from == Source(Current(n)) to == Target(Current(n), Goal(n)) IN
  /\ sort[n].pc = "writing" /\ sort[n].mode = "move" /\ files[from] # Nothing
  /\ files' = [files EXCEPT ![to] = files[from], ![from] = Nothing]
  /\ Trample(to, files[from])
  /\ Settle(n, "ok")
  /\ UNCHANGED <<item, saved, executing, indexAt, edits, sentTo, muddled>>

\* fs::copy: the mode, another volume (the source goes next), or a locked source.
Copy(n) ==
  LET from == Source(Current(n)) IN
  /\ sort[n].pc = "writing" /\ files[from] # Nothing
  /\ Put(Target(Current(n), Goal(n)), files[from])
  /\ IF sort[n].mode = "copy" THEN Settle(n, "ok")
     ELSE Settle(n, "copied") \/ sort' = [sort EXCEPT ![n].pc = "removing"]
  /\ UNCHANGED <<item, saved, executing, indexAt, edits, sentTo, muddled>>

\* Mutant: the source goes although the copy failed.
TransferFailsOn(n) ==
  /\ sort[n].pc = "writing"
  /\ sort' = [sort EXCEPT ![n].pc = "removing"]
  /\ UNCHANGED <<files, trampled, item, saved, executing, indexAt, edits, sentTo, muddled>>

\* Neither works; a failed copy may have emptied the target already.
TransferFails(n) ==
  LET to == Target(Current(n), Goal(n)) IN
  /\ sort[n].pc = "writing"
  /\ Put(to, Text) \/ UNCHANGED <<files, trampled>>
  /\ Settle(n, "failed")
  /\ UNCHANGED <<item, saved, executing, indexAt, edits, sentTo, muddled>>

RemoveSource(n) ==
  /\ sort[n].pc = "removing"
  /\ \/ files' = [files EXCEPT ![Source(Current(n))] = Nothing] /\ Settle(n, "ok")
     \/ UNCHANGED files /\ Settle(n, "undeleted")
  /\ UNCHANGED <<trampled, item, saved, executing, indexAt, edits, sentTo, muddled>>

RustStep(n) ==
  \/ Refuse(n) \/ WriteSidecar(n) \/ Rename(n) \/ Copy(n) \/ TransferFails(n) \/ RemoveSource(n)

Next ==
  \/ \E n \in Sorts, mode \in Modes : Click(n, mode)
  \/ \E n \in Sorts : Decline(n) \/ Begin(n) \/ Apply(n) \/ RustStep(n)
  \/ \E i \in Items : Edit(i)
  \/ ForceReset \/ Restart

Spec == Init /\ [][Next]_vars

\* The command goes through its items and is answered.
FairSpec == Spec /\ WF_vars(\E n \in Sorts : Apply(n) \/ RustStep(n))

-----------------------------------------------------------------------------
(* Properties *)

\* Sorting never takes away the last copy of a file: one that is nowhere any more
\* had another content of the same name put over it.
LastCopyIsKept ==
  \A i \in Items : i \in trampled \/ \E p \in Paths : files[p] = i

SortInv == TypeOK /\ LastCopyIsKept

\* A file reported as sorted, by whichever of two sorts answered last, is where
\* it was sent, unless another content was put over it.
DoneIsThere ==
  \A i \in Items : item[i].status = "done" /\ sentTo[i] # Nothing =>
    files[sentTo[i]] = i \/ i \in trampled

\* A file reported as failed is still where it was, unless two sorts ran at once
\* or the app was closed in the middle of one.
ErrorLeavesSource ==
  \A i \in Items :
    item[i].status = "error" /\ ~muddled /\ ~(\E n \in Sorts : Begun(n) /\ i \in DOMAIN sort[n].aim)
      => files[Source(i)] = i

\* Sorts that have begun come to their end, and the button is free again.
SortsEnd == executing \/ (\E n \in Sorts : Begun(n)) ~> ~executing /\ ~\E n \in Sorts : Begun(n)
=============================================================================
