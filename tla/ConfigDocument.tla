--------------------------- MODULE ConfigDocument ---------------------------
(***************************************************************************)
(* The configuration document of the service: one JSON document held in    *)
(* memory, saved to a file with a backup copy, edited by admin tabs that   *)
(* read it, change their copy and send the whole of it back, and written   *)
(* in between by the service itself: a discovery filed, a lookup answered, *)
(* a measurement of the radio.                                             *)
(*                                                                         *)
(* A tab's copy carries the revision it was read at; the service refuses a *)
(* copy of another revision.  Requests that change something are handled   *)
(* one at a time, reads and the service's own events at any time, also     *)
(* while a request waits for the scanner or the mixer.                     *)
(***************************************************************************)
EXTENDS Naturals, Sequences, SequencesExt

CONSTANTS
    Tab,          \* admin tabs
    Freq,         \* frequencies
    Row,          \* identities a channel row may have, oldest first
    FirstRow,     \* the row every document starts with
    FirstFreq,    \* and its frequency
    SuppressAt,   \* hits after which a carrier nobody identified is hidden
    Budgets       \* bound: what may come, together: writes of tabs, finds of the helper, news (answers
                  \* and measurements the service records), crashes (the power fails)

ASSUME RowsAssumption == /\ Row \in Seq(Nat \ {0}) /\ FirstRow \in ToSet(Row)
                         /\ FirstFreq \in Freq
ASSUME BudgetAssumption == Budgets \subseteq [{"writes", "finds", "news", "crashes"} -> Nat]

FileAfter == 2    \* CC_FILE_AFTER: hits before a discovery is filed

VARIABLES
    up,        \* the process runs
    config,    \* the document in memory
    main, bak, \* the file and its backup: a document, Torn or Missing
    tag,       \* the revision: which boot, how many saves since
    handler,   \* the request that holds the chain of writes
    copy,      \* the copy each tab is editing, with the revision it read
    snap,      \* what each tab's Undo would put back
    known,     \* the frequencies the helper was told not to report
    tuned,     \* the channels the scanner was given
    pipe,      \* close calls on their way from the helper
    seen,      \* hits counted per frequency before a discovery is filed
    asked,     \* lookups not answered yet
    dirty,     \* a measurement waits for its delayed save
    count      \* the bounded counters

vars == <<up, config, main, bak, tag, handler, copy, snap, known, tuned,
          pipe, seen, asked, dirty, count>>

\* A channel row; "located" once a provider knew its site, "heard" is the
\* last measurement of the radio.
Channel(f) == [freq |-> f, on |-> TRUE, looked |-> FALSE, located |-> FALSE, heard |-> 0]

\* The document: channel rows, discoveries and lockouts in their order, one
\* setting the scanner is started with, and the volume.
Absent == [freq |-> "none"]
\* An old file may hold several rows of one frequency.
Start(twins) ==
    [rows |-> [r \in ToSet(Row) |-> IF r = FirstRow \/ twins THEN Channel(FirstFreq) ELSE Absent],
     finds |-> << >>, lockout |-> << >>, knob |-> 0, volume |-> 0]

Default == [Start(FALSE) EXCEPT !.rows = [r \in ToSet(Row) |-> Absent]]

Torn    == [file |-> "torn"]
Missing == [file |-> "missing"]
Good(file) == file \notin {Torn, Missing}

NoCopy == [doc |-> Missing, tag |-> <<0, 0>>, op |-> <<"none">>]
NoSnap == [f |-> "none"]
Free   == [kind |-> "free"]

-----------------------------------------------------------------------------
(* What the engine is told of a document. *)

Rows(d)    == {r \in ToSet(Row) : d.rows[r] # Absent}
FreqsOf(s) == [i \in 1..Len(s) |-> s[i].freq]

\* The channels, and then discoveries and lockouts in one list; the lists that
\* are compared never differ in the channels.
KnownHz(d) == <<{d.rows[r].freq : r \in Rows(d)}, FreqsOf(d.finds) \o d.lockout>>
HzIn(list) == list[1] \cup ToSet(list[2])

\* The rows the scanner gets are the whole rows, measurements included.
Scanned(d) == {<<r, d.rows[r]>> : r \in {q \in Rows(d) : d.rows[q].on}}
KnobOnly(d) == <<d.knob>>
ScanPart(d) == <<Scanned(d), d.knob>>
TunedTo(d)  == {d.rows[r].freq : r \in {q \in Rows(d) : d.rows[q].on}}

HasChannel(d, f) == \E r \in Rows(d) : d.rows[r].freq = f
HasFind(d, f)    == \E i \in 1..Len(d.finds) : d.finds[i].freq = f

\* What an operator can see of a document: everything but the measurements.
Visible(d) ==
    [d EXCEPT !.rows = [r \in ToSet(Row) |->
        IF d.rows[r] = Absent THEN Absent ELSE [d.rows[r] EXCEPT !.heard = 0]]]

-----------------------------------------------------------------------------
(* The files. *)

\* What is read at boot: the file, else its backup, else a new document.
BackupFirst(m, b) == IF Good(b) THEN b ELSE IF Good(m) THEN m ELSE Default
Loaded(m, b) == CASE Good(m) -> m
                  [] ~Good(m) /\ Good(b) -> b
                  [] OTHER -> Default

\* A full save copies the file over the backup, then replaces the file; a
\* measurement's save only replaces the file.  Power may fail in the middle
\* of the copy, before the replacement or after it.
SavedFiles(d) == <<d, main>>
CutFiles(d)   == {<<main, Torn>>, <<main, main>>, <<d, main>>}

Bump(t) == <<t[1], t[2] + 1>>

SaveConfig(d) ==
    /\ tag' = Bump(tag)
    /\ main' = SavedFiles(d)[1] /\ bak' = SavedFiles(d)[2]

SaveTelemetry(d) ==
    /\ main' = d
    /\ UNCHANGED <<tag, bak>>

-----------------------------------------------------------------------------
Zero == [writes |-> 0, finds |-> 0, news |-> 0, crashes |-> 0, ids |-> 0]
Spend(what) ==
    /\ count' = [count EXCEPT ![what] = @ + 1]
    /\ \E b \in Budgets : \A k \in DOMAIN b : count'[k] <= b[k]

Init ==
    /\ \E twins \in BOOLEAN : config = Start(twins)
    /\ main = config /\ bak = Missing
    /\ up = TRUE
    /\ tag = <<0, 0>> /\ handler = Free
    /\ copy = [t \in Tab |-> NoCopy] /\ snap = [t \in Tab |-> NoSnap]
    /\ known = KnownHz(config) /\ tuned = TunedTo(config)
    /\ pipe = {} /\ seen = [f \in Freq |-> 0]
    /\ asked = {} /\ dirty = FALSE
    /\ count = Zero

-----------------------------------------------------------------------------
(* What a tab does to its copy. *)

LockoutIn(d, f) ==
    [d EXCEPT !.rows = [r \in ToSet(Row) |->
                  IF d.rows[r] # Absent /\ d.rows[r].freq = f THEN [d.rows[r] EXCEPT !.on = FALSE] ELSE d.rows[r]],
              !.finds = SelectSeq(@, LAMBDA x : x.freq # f),
              !.lockout = IF f \in ToSet(@) THEN @ ELSE Append(@, f)]

UnlockIn(d, f) ==
    [d EXCEPT !.rows = [r \in ToSet(Row) |->
                  IF d.rows[r] # Absent /\ d.rows[r].freq = f THEN [d.rows[r] EXCEPT !.on = TRUE] ELSE d.rows[r]],
              !.lockout = SelectSeq(@, LAMBDA x : x # f)]

DismissIn(d, id) == [d EXCEPT !.finds = SelectSeq(@, LAMBDA x : x.id # id)]
KnobIn(d, v)     == [d EXCEPT !.knob = v]

RestoreIn(d, id) ==
    [d EXCEPT !.finds = [i \in 1..Len(d.finds) |->
        IF @[i].id = id THEN [@[i] EXCEPT !.hits = FileAfter, !.hidden = FALSE] ELSE @[i]]]

\* What Undo of an edit works from: the state the rows had, the discoveries
\* that were dropped, and what becomes of the lockout.
SnapOf(d, op) ==
    CASE op[1] \in {"lockout", "unlock"} ->
            [f |-> op[2], on |-> [r \in {q \in Rows(d) : d.rows[q].freq = op[2]} |-> d.rows[r].on],
             finds |-> IF op[1] = "lockout" THEN SelectSeq(d.finds, LAMBDA x : x.freq = op[2]) ELSE << >>,
             lock |-> IF op[1] = "unlock" THEN "add" ELSE IF op[2] \in ToSet(d.lockout) THEN "keep" ELSE "remove"]
      [] op[1] = "dismiss" ->
            [f |-> "none", on |-> << >>, finds |-> SelectSeq(d.finds, LAMBDA x : x.id = op[2]), lock |-> "keep"]

\* Undo, on a fresh copy; a discovery is put back unless it is there again.
UndoIn(d, s) ==
    [d EXCEPT !.rows = [r \in ToSet(Row) |->
                  IF d.rows[r] # Absent /\ r \in DOMAIN s.on THEN [d.rows[r] EXCEPT !.on = s.on[r]] ELSE d.rows[r]],
              !.finds = @ \o SelectSeq(s.finds, LAMBDA x : x.id \notin {d.finds[i].id : i \in 1..Len(d.finds)}),
              !.lockout = CASE s.lock = "keep" -> @
                            [] s.lock = "remove" -> SelectSeq(@, LAMBDA x : x # s.f)
                            [] s.lock = "add" -> IF s.f \in ToSet(@) THEN @ ELSE Append(@, s.f)]

\* The edits a tab may have in mind for a document.
Ops(t, d) ==
    {<<"lockout", f>> : f \in Freq}
    \cup {<<"unlock", f>> : f \in ToSet(d.lockout)}
    \cup {<<"dismiss", d.finds[i].id>> : i \in 1..Len(d.finds)}
    \cup {<<"restore", d.finds[i].id>> : i \in {j \in 1..Len(d.finds) : d.finds[j].hidden}}
    \cup {<<"knob", 1 - d.knob>>}
    \cup (IF snap[t] = NoSnap THEN {} ELSE {<<"undo">>})

Edit(t, d, op) ==
    CASE op[1] = "lockout" -> LockoutIn(d, op[2])
      [] op[1] = "unlock"  -> UnlockIn(d, op[2])
      [] op[1] = "dismiss" -> DismissIn(d, op[2])
      [] op[1] = "restore" -> RestoreIn(d, op[2])
      [] op[1] = "knob"    -> KnobIn(d, op[2])
      [] op[1] = "undo"    -> UndoIn(d, snap[t])

-----------------------------------------------------------------------------
(* Requests. *)

\* GET /api/config: the copy carries the revision of this moment.
Read(t) ==
    /\ up /\ copy[t] = NoCopy
    /\ Spend("writes")
    /\ \E op \in Ops(t, config) : copy' = [copy EXCEPT ![t] = [doc |-> config, tag |-> tag, op |-> op]]
    /\ UNCHANGED <<up, config, main, bak, tag, handler, snap, known, tuned, pipe, seen, asked, dirty>>

Stale(t) == copy[t].tag # tag

\* A stale copy is refused and the tab reads again before its next edit.
Refuse(t) ==
    /\ up /\ handler = Free /\ copy[t] # NoCopy /\ Stale(t)
    /\ copy' = [copy EXCEPT ![t] = NoCopy]
    /\ UNCHANGED <<up, config, main, bak, tag, handler, snap, known, tuned, pipe, seen, asked, dirty, count>>

\* The document changed: restart the scanner when what it scans changed,
\* else tell the helper of the known frequencies if the two lists differ.
Repoint(before, after) ==
    IF ScanPart(before) # ScanPart(after)
    THEN handler' = [kind |-> "restart"] /\ pipe' = {} /\ UNCHANGED <<known, tuned>>
    ELSE /\ known' = IF KnownHz(before) # KnownHz(after) THEN KnownHz(after) ELSE known
         /\ UNCHANGED <<handler, pipe, tuned>>

Put(t) ==
    /\ up /\ handler = Free /\ copy[t] # NoCopy /\ ~Stale(t)
    /\ LET new == Edit(t, copy[t].doc, copy[t].op) IN
       /\ config' = new
       /\ SaveConfig(new)
       /\ Repoint(config, new)
    /\ snap' = [snap EXCEPT ![t] = CASE copy[t].op[1] \in {"lockout", "unlock", "dismiss"} -> SnapOf(copy[t].doc, copy[t].op)
                                     [] copy[t].op[1] = "undo" -> NoSnap
                                     [] OTHER -> @]
    /\ copy' = [copy EXCEPT ![t] = NoCopy]
    /\ UNCHANGED <<up, seen, asked, dirty, count>>

\* The channel routes work on the document as it is: add a row unless its
\* frequency is taken, move a row, delete one, drop duplicates.
TakenByScanned(d, f, but) == \E r \in Rows(d) \ {but} : d.rows[r].freq = f /\ d.rows[r].on
Taken(d, f, but) == \E r \in Rows(d) \ {but} : d.rows[r].freq = f
Unused(d) == {r \in ToSet(Row) : d.rows[r] = Absent /\ \A q \in ToSet(Row) : d.rows[q] = Absent => r <= q}

AddRow(d)  == {[d EXCEPT !.rows[r] = Channel(f)] : r \in Unused(d), f \in {x \in Freq : ~Taken(d, x, 0)}}
MoveRow(d) == UNION {{[d EXCEPT !.rows[r].freq = f] : f \in {x \in Freq : ~Taken(d, x, r)}} : r \in Rows(d)}
DropRow(d) == {[d EXCEPT !.rows[r] = Absent] : r \in Rows(d)}
\* Of the rows of one frequency the one that knows most is kept.
Richness(c) == (IF c.located THEN 2 ELSE 0) + c.heard
Richer(d, q, r) == /\ d.rows[q].freq = d.rows[r].freq
                   /\ \/ Richness(d.rows[q]) > Richness(d.rows[r])
                      \/ Richness(d.rows[q]) = Richness(d.rows[r]) /\ q < r
Resolve(d) == {[d EXCEPT !.rows = [r \in ToSet(Row) |->
                  IF r \in Rows(d) /\ \E q \in Rows(d) : Richer(d, q, r) THEN Absent ELSE d.rows[r]]]} \ {d}

ChannelRoute ==
    /\ up /\ handler = Free
    /\ Spend("writes")
    /\ \E new \in AddRow(config) \cup MoveRow(config) \cup DropRow(config) \cup Resolve(config) :
         /\ config' = new
         /\ SaveConfig(new)
    /\ handler' = [kind |-> "restart"]
    /\ UNCHANGED <<up, copy, snap, known, tuned, pipe, seen, asked, dirty>>

\* The scanner is back, on the document of this moment.
Repointed ==
    /\ up /\ handler.kind = "restart"
    /\ handler' = Free
    /\ known' = KnownHz(config) /\ tuned' = TunedTo(config)
    /\ UNCHANGED <<up, config, main, bak, tag, copy, snap, pipe, seen, asked, dirty, count>>

\* POST /api/audio/volume changes the document, waits for the mixer and only
\* then saves.
Volume ==
    /\ up /\ handler = Free
    /\ Spend("writes")
    /\ config' = [config EXCEPT !.volume = 1 - @]
    /\ handler' = [kind |-> "mixer"]
    /\ UNCHANGED <<up, main, bak, tag, copy, snap, known, tuned, pipe, seen, asked, dirty>>

Mixed ==
    /\ up /\ handler.kind = "mixer"
    /\ handler' = Free
    /\ SaveConfig(config)
    /\ UNCHANGED <<up, config, copy, snap, known, tuned, pipe, seen, asked, dirty, count>>

-----------------------------------------------------------------------------
(* The service's own writes. *)

\* The helper reports a carrier it was not told of.
Hear(f) ==
    /\ up /\ handler.kind # "restart"
    /\ f \notin HzIn(known) /\ f \notin pipe
    /\ Spend("finds")
    /\ pipe' = pipe \cup {f}
    /\ UNCHANGED <<up, config, main, bak, tag, handler, copy, snap, known, tuned, seen, asked, dirty>>

\* A close call: nothing on a channel's frequency; one more hit of a filed
\* discovery; else counted, and filed at the second hit.
HitAgain(d, f) ==
    [d EXCEPT !.finds = [i \in 1..Len(d.finds) |->
        LET r == d.finds[i]
        IN  IF i # SelectInSeq(d.finds, LAMBDA x : x.freq = f) THEN r
            ELSE [r EXCEPT !.hits = IF @ < SuppressAt THEN @ + 1 ELSE @,
                           !.hidden = @ \/ (~r.named /\ r.hits + 1 >= SuppressAt)]]]

CloseCall(f) ==
    /\ up /\ f \in pipe
    /\ pipe' = pipe \ {f}
    /\ IF HasChannel(config, f)
       THEN UNCHANGED <<config, main, bak, tag, seen, asked, count>>
       ELSE IF HasFind(config, f)
       THEN /\ config' = HitAgain(config, f)
            /\ SaveConfig(HitAgain(config, f))
            /\ UNCHANGED <<seen, asked, count>>
       ELSE /\ seen' = [seen EXCEPT ![f] = IF @ < FileAfter THEN @ + 1 ELSE @]
            /\ IF seen[f] + 1 < FileAfter
               THEN UNCHANGED <<config, main, bak, tag, asked, count>>
               ELSE LET find == [id |-> count.ids, freq |-> f, hits |-> FileAfter, named |-> FALSE, hidden |-> FALSE]
                        new  == [config EXCEPT !.finds = Append(@, find)] IN
                    /\ config' = new
                    /\ SaveConfig(new)
                    /\ asked' = asked \cup {<<"find", find.id>>}
                    /\ count' = [count EXCEPT !.ids = @ + 1]
    /\ UNCHANGED <<up, handler, copy, snap, known, tuned, dirty>>

\* The pass over rows never looked up asks about one row at a time.
Ask ==
    /\ up
    /\ \A a \in asked : a[1] # "row"
    /\ Spend("news")
    /\ \E r \in Rows(config) : ~config.rows[r].looked /\ asked' = asked \cup {<<"row", r>>}
    /\ UNCHANGED <<up, config, main, bak, tag, handler, copy, snap, known, tuned, pipe, seen, dirty>>

\* A provider's answer is written to the row or discovery of that identity in
\* the document of this moment; a miss stamps a row and leaves a discovery.
LookedUp(c, hit) == [c EXCEPT !.looked = TRUE, !.located = @ \/ hit]
Answered(d, a, hit) ==
    IF a[1] = "row"
    THEN IF d.rows[a[2]] = Absent THEN d
         ELSE [d EXCEPT !.rows[a[2]] = LookedUp(@, hit)]
    ELSE [d EXCEPT !.finds = [i \in 1..Len(d.finds) |->
             IF @[i].id = a[2] THEN [@[i] EXCEPT !.named = TRUE] ELSE @[i]]]

Answer(a, hit) ==
    /\ up /\ a \in asked
    /\ asked' = asked \ {a}
    /\ IF a[1] = "find" /\ ~hit
       THEN UNCHANGED <<config, main, bak, tag>>
       ELSE /\ config' = Answered(config, a, hit)
            /\ SaveConfig(Answered(config, a, hit))
    /\ UNCHANGED <<up, handler, copy, snap, known, tuned, pipe, seen, dirty, count>>

\* A measurement goes into the document at once and to the file later.
Measure(r) ==
    /\ up /\ r \in Rows(config)
    /\ Spend("news")
    /\ config' = [config EXCEPT !.rows[r].heard = 1 - @]
    /\ dirty' = TRUE
    /\ UNCHANGED <<up, main, bak, tag, handler, copy, snap, known, tuned, pipe, seen, asked>>

TelemetrySave ==
    /\ up /\ dirty
    /\ dirty' = FALSE
    /\ SaveTelemetry(config)
    /\ UNCHANGED <<up, config, handler, copy, snap, known, tuned, pipe, seen, asked, count>>

-----------------------------------------------------------------------------
(* Power and hand edits. *)

Down ==
    /\ up' = FALSE
    /\ handler' = Free /\ pipe' = {} /\ asked' = {} /\ dirty' = FALSE
    /\ config' = Default /\ known' = <<{}, << >> >> /\ tuned' = {}
    /\ seen' = [f \in Freq |-> 0]
    /\ UNCHANGED <<tag, copy, snap>>

\* The power fails: between saves, or inside the save of a tab's document.
Crash ==
    /\ up /\ Spend("crashes")
    /\ Down
    /\ UNCHANGED <<main, bak>>

CrashInPut(t) ==
    /\ up /\ handler = Free /\ copy[t] # NoCopy /\ ~Stale(t)
    /\ Spend("crashes")
    /\ \E files \in CutFiles(Edit(t, copy[t].doc, copy[t].op)) : main' = files[1] /\ bak' = files[2]
    /\ Down

\* The operator edits the file by hand while the service is down, and it no
\* longer parses.
HandEdit ==
    /\ ~up /\ Good(main) /\ Good(bak)
    /\ main' = Torn
    /\ UNCHANGED <<up, config, bak, tag, handler, copy, snap, known, tuned, pipe, seen, asked, dirty, count>>

\* Every process has a name of its own in its revisions.
RevisionOnly(t) == <<t[1], 0>>
FirstTag(t) == <<t[1] + 1, 0>>

\* A rejected file is set aside and replaced.
Boot ==
    /\ ~up
    /\ up' = TRUE
    /\ LET d == Loaded(main, bak) IN
       /\ config' = d /\ main' = d
       /\ bak' = IF Good(main) \/ Good(bak) THEN bak ELSE Missing
       /\ known' = KnownHz(d) /\ tuned' = TunedTo(d)
    /\ tag' = FirstTag(tag)
    /\ UNCHANGED <<handler, copy, snap, pipe, seen, asked, dirty, count>>

Next ==
    \/ \E t \in Tab : Read(t) \/ Refuse(t) \/ Put(t) \/ CrashInPut(t)
    \/ ChannelRoute \/ Repointed \/ Volume \/ Mixed
    \/ \E f \in Freq : Hear(f) \/ CloseCall(f)
    \/ Ask \/ TelemetrySave
    \/ \E a \in asked, hit \in BOOLEAN : Answer(a, hit)
    \/ \E r \in ToSet(Row) : Measure(r)
    \/ Crash \/ HandEdit \/ Boot

Spec == Init /\ [][Next]_vars

-----------------------------------------------------------------------------
(* Properties. *)

\* A copy the service would accept shows all the operator could see in the
\* document of this moment, so an accepted edit erases nothing that was
\* written since the copy was read: no discovery, lockout, answer, row or
\* setting, also across a restart.
NothingErased ==
    \A t \in Tab : up /\ handler = Free /\ copy[t] # NoCopy /\ ~Stale(t) => Visible(copy[t].doc) = Visible(config)

\* While the service runs the file is its document, but for a volume the
\* mixer is still setting and measurements not yet saved; and when the power
\* fails, the next boot reads that document or the one being written: never
\* an older one, never half of one, never the defaults.
Written(doc, file) ==
    /\ Good(file)
    /\ handler.kind # "mixer" => file.volume = doc.volume
    /\ handler.kind # "mixer" /\ ~dirty => file = doc
    /\ Visible([file EXCEPT !.volume = doc.volume]) = Visible(doc)
Sent == {Edit(t, copy[t].doc, copy[t].op) : t \in {x \in Tab : copy[x] # NoCopy /\ ~Stale(x)}}
Recoverable ==
    [][ /\ up => Written(config, main)
        /\ up /\ ~up' => Loaded(main', bak') \in {main} \cup Sent ]_vars

\* No request puts a channel on a frequency another channel already has,
\* whatever was added, moved, undone or read back in the meantime.
Twins(d) == {{x[1], x[2]} : x \in {p \in Rows(d) \X Rows(d) : p[1] # p[2] /\ d.rows[p[1]].freq = d.rows[p[2]].freq}}
NoNewTwin == [][up /\ up' => Twins(config') \subseteq Twins(config)]_vars

\* No step makes the document worse: a write puts no channel on a taken frequency, and
\* the file is at every moment what a boot may go on from.
DocumentSafe == Recoverable /\ NoNewTwin

\* Between requests the scanner scans the document's channels, and the
\* helper knows them all, archived ones too, so that Close Call does not
\* report them.
EngineFits ==
    up /\ handler = Free =>
        /\ tuned = TunedTo(config)
        /\ \A r \in Rows(config) : config.rows[r].freq \in HzIn(known)

\* The document is the one everybody goes by: the tabs whose edits would be
\* taken, and the scanner.
DocumentInForce == NothingErased /\ EngineFits

\* "Close Call never reports it again" (libraryActions.ts:14): the helper
\* knows every locked-out frequency.
LockedOutSilent == up /\ handler = Free => ToSet(config.lockout) \subseteq HzIn(known)
=============================================================================
