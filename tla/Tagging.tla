-------------------------------- MODULE Tagging --------------------------------
(***************************************************************************)
(* Tags, the marks that put them on files, and the rules that do so by     *)
(* themselves: the requests for tags and rules (app/routers/api/tags.py,   *)
(* tag_rules.py), the evaluation and the application of the rules          *)
(* (app/services/tag_rule_service.py) by a request and by a scan that has  *)
(* found new files (file_workflow_service.py), in parallel.                *)
(*                                                                         *)
(* A request of the user is one step: what another request does meanwhile  *)
(* is caught by the unique index.  A job sees its own marks only after a   *)
(* commit, and reads the rules again after each.                           *)
(***************************************************************************)
EXTENDS Integers, FiniteSets, Absent

CONSTANTS
    FileIds,    \* ids of the inventory: never used twice
    Facts,      \* what the inventory knows of a file
    Shapes,     \* what a rule may ask for
    TagNames, MaxTag, MaxRule,      \* ids of tags and rules: used again
    RuleJobs,   \* runs of the rules
    Batch,      \* files in a commit
    MaxEdits

ASSUME TagAssumption == {MaxTag, MaxRule, Batch, MaxEdits} \subseteq Nat \ {0}

TagIds == 1..MaxTag
RuleIds == 1..MaxRule
Rule == [tag: TagIds, shape: Shapes, enabled: BOOLEAN]
Mark == FileIds \X TagIds
RuleTables == UNION {[rs -> Rule \cup {None}] : rs \in SUBSET RuleIds}
Debt == [file: FileIds, rule: RuleIds, tag: TagIds]

\* A job: what it does next, the rules it holds (have they expired?), whether its
\* rows are those of the first batch, and its files and marks.  "owed" and "skipped" are ghosts.
Run == [kind: {"apply", "scan"}, at: {"rules", "commit", "done", "failed"},
        held: RuleTables, expired: BOOLEAN, first: BOOLEAN, todo: SUBSET FileIds, count: Nat,
        pending: SUBSET Mark, clash: BOOLEAN, owed: SUBSET Debt, skipped: SUBSET FileIds]

ASSUME AbsentAssumption == None \notin TagNames \cup Rule \cup Run

VARIABLES
    tags,       \* an id's name, or None
    rules,      \* an id's rule, or None
    inventory, born,
    marks,      \* file_tags: a file's id and a tag's
    run,        \* a job, or None
    edits

tagVars == <<tags, rules, inventory, born, marks, run, edits>>

TagTypeOK ==
    /\ tags \in [TagIds -> TagNames \cup {None}]
    /\ rules \in [RuleIds -> Rule \cup {None}]
    /\ inventory \subseteq born /\ born \subseteq FileIds
    /\ marks \subseteq Mark
    /\ run \in [RuleJobs -> Run \cup {None}]
    /\ edits \in 0..MaxEdits

TagInit ==
    /\ tags = [t \in TagIds |-> None]
    /\ rules = [r \in RuleIds |-> None]
    /\ inventory = {} /\ born = {}
    /\ marks = {}
    /\ run = [j \in RuleJobs |-> None]
    /\ edits = 0

-----------------------------------------------------------------------------
(* Does a rule match a file?  "texts" is what a rule's value stands for     *)
(* under its operator (case and the leading dot aside), "bound" its size;   *)
(* an invalid pattern stands for nothing, an invalid size is None.          *)

TextOperators ==
    [extension    |-> {"eq", "matches", "contains"},
     path_pattern |-> {"matches", "regex", "contains"},
     mime_type    |-> {"eq", "contains", "matches"},
     name_pattern |-> {"matches", "regex", "contains"}]

InSize(size, op, bound) ==
    \/ op = "gt"  /\ size > bound
    \/ op = "lt"  /\ size < bound
    \/ op = "eq"  /\ size = bound
    \/ op = "gte" /\ size >= bound
    \/ op = "lte" /\ size <= bound

Evaluate(shape, f) ==
    IF shape.type = "size"
    THEN Facts[f].size # None /\ shape.bound # None /\ InSize(Facts[f].size, shape.op, shape.bound)
    ELSE shape.op \in TextOperators[shape.type] /\ Facts[f][shape.type] \in shape.texts

-----------------------------------------------------------------------------
(* The user's requests.  A job's ghost "owed" has the marks it must set:    *)
(* what the user takes back is no longer owed.                              *)

Edit == edits < MaxEdits /\ edits' = edits + 1
Excuse(lost) ==
    run' = [j \in RuleJobs |-> IF run[j] = None THEN None
                               ELSE [run[j] EXCEPT !.owed = @ \ lost]]

\* A new row's id is the largest in use, and one more.
NextId(table, id) ==
    /\ \A k \in DOMAIN table : table[k] # None => k < id
    /\ id > 1 => table[id - 1] # None

CreateTag(n) ==
    /\ Edit /\ \A t \in TagIds : tags[t] # n
    /\ \E id \in TagIds : NextId(tags, id) /\ tags' = [tags EXCEPT ![id] = n]
    /\ UNCHANGED <<rules, inventory, born, marks, run>>

\* A deleted tag takes its marks with it; its rules stay.
DeleteTag(t) ==
    /\ Edit /\ tags[t] # None
    /\ tags' = [tags EXCEPT ![t] = None]
    /\ marks' = {m \in marks : m[2] # t}
    /\ Excuse({o \in Debt : o.tag = t})
    /\ UNCHANGED <<rules, inventory, born>>

RenameTag(t, n) ==
    /\ Edit /\ tags[t] # None /\ \A u \in TagIds \ {t} : tags[u] # n
    /\ tags' = [tags EXCEPT ![t] = n]
    /\ UNCHANGED <<rules, inventory, born, marks, run>>

CreateRule(t, shape, on) ==
    /\ Edit /\ tags[t] # None
    /\ \E id \in RuleIds : /\ NextId(rules, id)
                          /\ rules' = [rules EXCEPT ![id] = [tag |-> t, shape |-> shape, enabled |-> on]]
    /\ UNCHANGED <<tags, inventory, born, marks, run>>

\* Everything but the tag can be changed.
UpdateRule(r, shape, on) ==
    /\ Edit /\ rules[r] # None
    /\ rules' = [rules EXCEPT ![r].shape = shape, ![r].enabled = on]
    /\ Excuse({o \in Debt : o.rule = r})
    /\ UNCHANGED <<tags, inventory, born, marks>>

DeleteRule(r) ==
    /\ Edit /\ rules[r] # None
    /\ rules' = [rules EXCEPT ![r] = None]
    /\ Excuse({o \in Debt : o.rule = r})
    /\ UNCHANGED <<tags, inventory, born, marks>>

\* A file at a time, alone or in bulk.
AddTag(f, t) ==
    /\ Edit /\ f \in inventory /\ tags[t] # None
    /\ marks' = marks \cup {<<f, t>>}
    /\ UNCHANGED <<tags, rules, inventory, born, run>>

RemoveTag(f, t) ==
    /\ Edit /\ <<f, t>> \in marks
    /\ marks' = marks \ {<<f, t>>}
    /\ Excuse({o \in Debt : o.file = f /\ o.tag = t})
    /\ UNCHANGED <<tags, rules, inventory, born>>

\* A scan drops the row of a file that has gone, and leaves its marks.
DropFile(f) ==
    /\ Edit /\ f \in inventory
    /\ inventory' = inventory \ {f}
    /\ Excuse({o \in Debt : o.file = f})
    /\ UNCHANGED <<tags, rules, born, marks>>

-----------------------------------------------------------------------------
(* A run of the rules.                                                      *)

Enabled == {r \in RuleIds : rules[r] # None /\ rules[r].enabled}
Owed(files, rs) == {[file |-> f, rule |-> r, tag |-> rules[r].tag] : f \in files, r \in rs}
Start(j, kind, files) ==
    run' = [run EXCEPT ![j] =
        [kind |-> kind, at |-> "rules", held |-> [r \in Enabled |-> rules[r]],
         expired |-> (kind = "scan"), first |-> (kind = "apply"),
         todo |-> files, count |-> 0, pending |-> {}, clash |-> FALSE, skipped |-> {},
         owed |-> {o \in Owed(files, Enabled) : Evaluate(rules[o.rule].shape, o.file)}]]

\* POST /tag-rules/apply: with the enabled rules and the files there are.
StartApply(j) ==
    /\ run[j] = None /\ Enabled # {} /\ Edit
    /\ Start(j, "apply", inventory)
    /\ UNCHANGED <<tags, rules, inventory, born, marks>>

\* A scan has committed the rows of new files.
StartScan(j, files) ==
    /\ run[j] = None /\ files # {} /\ files \cap born = {} /\ Edit
    /\ born' = born \cup files /\ inventory' = inventory \cup files
    /\ Start(j, "scan", files)
    /\ UNCHANGED <<tags, rules, marks>>

\* The rules as the job sees them: after a commit they are read again.
Seen(j) == IF run[j].expired THEN [r \in DOMAIN run[j].held |-> rules[r]] ELSE run[j].held
Matching(f, held) == {r \in DOMAIN held : held[r] # None /\ held[r].enabled /\ Evaluate(held[r].shape, f)}
\* A deleted file is noticed, and matches no rule, once the rows are read again.
Readable(j, f) == run[j].first \/ f \in inventory

\* The rules in use one after the other; the marks that are there already are
\* left out, the job's own are not seen.  A rule that has been deleted raises: a
\* request fails, but a scan only skips the rest of the file's rules, those that
\* are still there too, and goes on.
ApplyToFile(j, f) ==
    LET held  == Seen(j)
        lost  == {r \in DOMAIN held : held[r] = None}
        news  == {r \in IF Readable(j, f) THEN Matching(f, held) ELSE {} :
                       <<f, held[r].tag>> \notin marks}
        Adding(rs) == [run[j] EXCEPT !.held = held, !.expired = FALSE, !.todo = @ \ {f}, !.count = @ + 1,
                         !.pending = @ \cup {<<f, held[r].tag>> : r \in rs},
                         !.clash = @ \/ \E r, s \in rs : r # s /\ held[r].tag = held[s].tag]
    IN  /\ run[j] # None /\ run[j].at = "rules" /\ f \in run[j].todo
        /\ IF lost = {} \/ (run[j].kind = "scan" /\ ~Readable(j, f))
           THEN run' = [run EXCEPT ![j] = [Adding(news) EXCEPT !.at =
                          IF run[j].kind = "scan" THEN (IF news = {} THEN "rules" ELSE "commit")
                          ELSE IF (run[j].count + 1) % Batch = 0 THEN "commit" ELSE "rules"]]
           ELSE IF run[j].kind = "scan"
           THEN \E rs \in SUBSET news :
                   run' = [run EXCEPT ![j] = [Adding(rs) EXCEPT !.skipped = @ \cup {f}]]
           ELSE run' = [run EXCEPT ![j].at = "failed"]
        /\ UNCHANGED <<tags, rules, inventory, born, marks, edits>>

\* A bug: the last files, fewer than a batch, are not committed.
LastFilesNotCommitted(j) ==
    /\ run[j] # None /\ run[j].at = "rules" /\ run[j].todo = {}
    /\ run' = [run EXCEPT ![j].at = "done"]
    /\ UNCHANGED <<tags, rules, inventory, born, marks, edits>>

LastCommit(j) ==
    /\ run[j] # None /\ run[j].at = "rules" /\ run[j].todo = {}
    /\ run' = [run EXCEPT ![j].at = "commit"]
    /\ UNCHANGED <<tags, rules, inventory, born, marks, edits>>

\* The index on file and tag refuses a second mark, and all that is pending with
\* it.  A scan goes on to fail: its session is not rolled back.
CommitMarks(j) ==
    /\ run[j] # None /\ run[j].at = "commit"
    /\ IF run[j].clash \/ run[j].pending \cap marks # {}
       THEN run' = [run EXCEPT ![j].at = "failed"] /\ UNCHANGED marks
       ELSE /\ marks' = marks \cup run[j].pending
            /\ run' = [run EXCEPT ![j].pending = {}, ![j].expired = TRUE, ![j].first = FALSE,
                                  ![j].at = IF run[j].todo = {} THEN "done" ELSE "rules"]
    /\ UNCHANGED <<tags, rules, inventory, born, edits>>

EndRun(j) ==
    /\ run[j] # None /\ run[j].at \in {"done", "failed"}
    /\ run' = [run EXCEPT ![j] = None]
    /\ UNCHANGED <<tags, rules, inventory, born, marks, edits>>

TagRequest ==
    \/ \E n \in TagNames : CreateTag(n) \/ \E t \in TagIds : RenameTag(t, n)
    \/ \E t \in TagIds : DeleteTag(t) \/ \E f \in FileIds : AddTag(f, t) \/ RemoveTag(f, t)
    \/ \E shape \in Shapes, on \in BOOLEAN :
          (\E t \in TagIds : CreateRule(t, shape, on)) \/ \E r \in RuleIds : UpdateRule(r, shape, on)
    \/ \E r \in RuleIds : DeleteRule(r)
    \/ \E f \in FileIds : DropFile(f)

TagNext ==
    \/ TagRequest
    \/ \E j \in RuleJobs :
          \/ StartApply(j) \/ LastCommit(j) \/ CommitMarks(j) \/ EndRun(j)
          \/ \E files \in SUBSET FileIds : StartScan(j, files)
          \/ \E f \in FileIds : ApplyToFile(j, f)

TagSpec == TagInit /\ [][TagNext]_tagVars

-----------------------------------------------------------------------------
\* A run that reports success has tagged every file a rule matched when it
\* began, whatever else is committed meanwhile, unless the user has taken this
\* very rule, the tag, the mark or the file back (tag_rule_service.py:242-286).
\* A scan breaks this of the files whose turn comes after some rule was deleted:
\* each raises, goes without the other rules' marks, and the scan ends as if it
\* had succeeded (file_workflow_service.py:1070-1088).  Of them nothing is said.
AppliedToAll == \A j \in RuleJobs : run[j] # None /\ run[j].at = "done" =>
                    \A o \in run[j].owed : o.file \notin run[j].skipped => <<o.file, o.tag>> \in marks
=============================================================================
