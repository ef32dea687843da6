------------------------ MODULE ConfigDocumentProofs ------------------------
(***************************************************************************)
(* Proofs about the configuration document, for any tabs, frequencies, row *)
(* identities and bounds: DocumentInForce and DocumentSafe; and, in the    *)
(* second part, about what a page shows as playing: PageFollowsSpeaker.    *)
(*                                                                         *)
(* A revision says which boot and which save since.  Every change of the   *)
(* document that an operator could see comes with a save, and a save with  *)
(* a revision nobody holds; only the volume changes before its save, and   *)
(* meanwhile the mixer has the chain of writes.  So a copy under the       *)
(* current revision shows the current document.                            *)
(***************************************************************************)
EXTENDS ConfigDocument, NowPlaying, TLAPS

\* What a channel row is.
ChannelRow == [freq : Freq, on : BOOLEAN, looked : BOOLEAN, located : BOOLEAN, heard : {0, 1}]

\* A whole document; of its lists only the rows matter here.
IsDoc(d) ==
  /\ d = [rows |-> d.rows, finds |-> d.finds, lockout |-> d.lockout,
          knob |-> d.knob, volume |-> d.volume]
  /\ d.rows \in [ToSet(Row) -> ChannelRow \cup {Absent}]

\* Undo puts back a state a row can have.
Restores(s) == \A r \in DOMAIN s.on : s.on[r] \in BOOLEAN

\* Revisions are ordered by boot and save; no copy has one of the future.
NotLater(a, b) == a[1] < b[1] \/ (a[1] = b[1] /\ a[2] <= b[2])
TagsInOrder ==
  /\ tag \in Nat \X Nat
  /\ \A t \in Tab : copy[t] # NoCopy => copy[t].tag \in Nat \X Nat /\ NotLater(copy[t].tag, tag)

\* Whatever is held somewhere as a document is one, and every edit is an
\* edit: an undo has something to undo.
DocumentsWhole ==
  /\ IsDoc(config)
  /\ Good(main) => IsDoc(main)
  /\ Good(bak) => IsDoc(bak)
  /\ DOMAIN copy = Tab /\ DOMAIN snap = Tab
  /\ \A t \in Tab : copy[t] # NoCopy =>
       /\ IsDoc(copy[t].doc)
       /\ copy[t].op[1] \in {"lockout", "unlock", "dismiss", "restore", "knob", "undo"}
       /\ copy[t].op[1] = "undo" => snap[t] # NoSnap
  /\ \A t \in Tab : snap[t] # NoSnap => Restores(snap[t])
  /\ handler \in {Free, [kind |-> "restart"], [kind |-> "mixer"]}

\* A copy under the current revision shows the document, also while the
\* scanner restarts.
CopiesFresh ==
  up /\ handler.kind # "mixer" =>
    \A t \in Tab : copy[t] # NoCopy /\ copy[t].tag = tag => Visible(copy[t].doc) = Visible(config)

\* The file of a running service.
FileWritten == up => Written(config, main)

\* Unless it restarts, the scanner has the channels, and the helper knows them.
EngineTold ==
  up /\ handler.kind # "restart" =>
    /\ tuned = TunedTo(config)
    /\ \A r \in Rows(config) : config.rows[r].freq \in HzIn(known)

DocInv == TagsInOrder /\ DocumentsWhole /\ CopiesFresh /\ FileWritten /\ EngineTold

-----------------------------------------------------------------------------
(* Documents. *)

\* A document e has the rows of d on the same frequencies; and scans the same.
SameRows(d, e) == Rows(e) = Rows(d) /\ \A r \in Rows(d) : e.rows[r].freq = d.rows[r].freq
SameScan(d, e) == SameRows(d, e) /\ \A r \in Rows(d) : e.rows[r].on = d.rows[r].on

\* A document is no placeholder of a file that is torn or missing.
LEMMA DocGood == ASSUME NEW d, IsDoc(d) PROVE Good(d)
<1>1. "rows" \in DOMAIN d
  BY DEF IsDoc
<1>2. "rows" \notin DOMAIN Torn /\ "rows" \notin DOMAIN Missing
  BY DEF Torn, Missing
<1> QED BY <1>1, <1>2 DEF Good

\* A row that is a row is not an absent one.
LEMMA RowPresent == ASSUME NEW c \in ChannelRow PROVE c # Absent
<1>1. "on" \in DOMAIN c
  BY DEF ChannelRow
<1>2. "on" \notin DOMAIN Absent
  BY DEF Absent
<1> QED BY <1>1, <1>2

\* The rows of a document are the identities that are not absent in it.
LEMMA RowsOf ==
  ASSUME NEW d, IsDoc(d), NEW r
  PROVE  r \in Rows(d) <=> r \in ToSet(Row) /\ d.rows[r] \in ChannelRow
BY RowPresent DEF IsDoc, Rows

\* A document whose rows or lists are replaced is one.
LEMMA DocWith ==
  ASSUME NEW d, IsDoc(d), NEW x, NEW y, NEW z, NEW k, NEW v,
         x \in [ToSet(Row) -> ChannelRow \cup {Absent}]
  PROVE  IsDoc([rows |-> x, finds |-> y, lockout |-> z, knob |-> k, volume |-> v])
BY DEF IsDoc

\* The helper is told of every row of the list it is given.
LEMMA RowsKnown ==
  ASSUME NEW d, NEW r \in Rows(d)
  PROVE  d.rows[r].freq \in HzIn(KnownHz(d))
BY DEF HzIn, KnownHz

\* What the scanner is given are its rows' frequencies.
LEMMA ScannedTunes ==
  ASSUME NEW d, NEW e, Scanned(d) = Scanned(e)
  PROVE  TunedTo(d) = TunedTo(e)
<1>1. ASSUME NEW x, NEW y, Scanned(x) = Scanned(y), NEW r \in {q \in Rows(x) : x.rows[q].on}
      PROVE  x.rows[r].freq \in TunedTo(y)
  <2>1. <<r, x.rows[r]>> \in Scanned(y)
    BY <1>1 DEF Scanned
  <2>2. PICK q \in {p \in Rows(y) : y.rows[p].on} : <<r, x.rows[r]>> = <<q, y.rows[q]>>
    BY <2>1 DEF Scanned
  <2> QED BY <2>2 DEF TunedTo
<1> QED BY <1>1 DEF TunedTo

LEMMA SameTunes ==
  ASSUME NEW d, NEW e, SameScan(d, e)
  PROVE  TunedTo(e) = TunedTo(d)
BY DEF SameScan, SameRows, TunedTo

\* A document with no row but those of another, on their frequencies, has no
\* twins but its twins.
LEMMA FewerTwins ==
  ASSUME NEW d, NEW e, Rows(e) \subseteq Rows(d),
         \A r \in Rows(e) : e.rows[r].freq = d.rows[r].freq
  PROVE  Twins(e) \subseteq Twins(d)
<1>1. {x \in Rows(e) \X Rows(e) : x[1] # x[2] /\ e.rows[x[1]].freq = e.rows[x[2]].freq}
      \subseteq {x \in Rows(d) \X Rows(d) : x[1] # x[2] /\ d.rows[x[1]].freq = d.rows[x[2]].freq}
  OBVIOUS
<1> QED BY <1>1 DEF Twins

\* Two documents an operator cannot tell apart have the same rows on the same
\* frequencies, the same of them scanned.
LEMMA VisibleRows ==
  ASSUME NEW d, NEW e, IsDoc(d), IsDoc(e), Visible(d) = Visible(e)
  PROVE  SameScan(d, e)
<1> DEFINE Seen(x) == [r \in ToSet(Row) |-> IF x.rows[r] = Absent THEN Absent ELSE [x.rows[r] EXCEPT !.heard = 0]]
<1>1. Seen(d) = Seen(e)
  <2>1. \A x : IsDoc(x) => Visible(x).rows = Seen(x)
    BY DEF Visible, IsDoc
  <2> QED BY <2>1, ZenonT(40)
<1>2. ASSUME NEW x, IsDoc(x), NEW r \in ToSet(Row)
      PROVE  /\ r \in Rows(x) <=> Seen(x)[r] # Absent
             /\ r \in Rows(x) => Seen(x)[r].freq = x.rows[r].freq /\ Seen(x)[r].on = x.rows[r].on
  <2>1. CASE x.rows[r] = Absent
    BY <2>1 DEF Rows
  <2>2. CASE x.rows[r] # Absent
    <3>1. x.rows[r] \in ChannelRow
      BY <1>2, <2>2 DEF IsDoc
    <3>2. Seen(x)[r] = [x.rows[r] EXCEPT !.heard = 0]
      BY <2>2
    <3>3. /\ Seen(x)[r] \in ChannelRow
          /\ Seen(x)[r].freq = x.rows[r].freq /\ Seen(x)[r].on = x.rows[r].on
      BY <3>1, <3>2 DEF ChannelRow
    <3> QED BY <3>3, <2>2, RowPresent DEF Rows
  <2> QED BY <2>1, <2>2
<1> HIDE DEF Seen
<1>3. Rows(d) \subseteq ToSet(Row) /\ Rows(e) \subseteq ToSet(Row)
  BY DEF Rows
<1>4. Rows(d) = Rows(e)
  BY <1>1, <1>2, <1>3
<1> QED BY <1>1, <1>2, <1>3, <1>4 DEF SameScan, SameRows

-----------------------------------------------------------------------------
(* Changes of a document. *)

\* A document made of the parts a document has.
Parts(d) == d = [rows |-> d.rows, finds |-> d.finds, lockout |-> d.lockout, knob |-> d.knob, volume |-> d.volume]

\* Switching rows on and off leaves a document with the same rows.
LEMMA Switched ==
  ASSUME NEW d, IsDoc(d), NEW e, Parts(e), NEW new, e.rows = [r \in ToSet(Row) |-> new[r]],
         \A r \in ToSet(Row) :
           \/ new[r] = d.rows[r]
           \/ d.rows[r] # Absent /\ \E b \in BOOLEAN : new[r] = [d.rows[r] EXCEPT !.on = b]
  PROVE  IsDoc(e) /\ SameRows(d, e)
<1>1. ASSUME NEW r \in ToSet(Row)
      PROVE  /\ new[r] \in ChannelRow \cup {Absent}
             /\ new[r] = Absent <=> d.rows[r] = Absent
             /\ d.rows[r] # Absent => new[r].freq = d.rows[r].freq
  <2>1. CASE new[r] = d.rows[r]
    BY <2>1 DEF IsDoc
  <2>2. CASE d.rows[r] # Absent /\ \E b \in BOOLEAN : new[r] = [d.rows[r] EXCEPT !.on = b]
    <3>1. PICK b \in BOOLEAN : new[r] = [d.rows[r] EXCEPT !.on = b]
      BY <2>2
    <3>2. d.rows[r] \in ChannelRow
      BY <2>2 DEF IsDoc
    <3>3. new[r] \in ChannelRow /\ new[r].freq = d.rows[r].freq
      BY <3>1, <3>2 DEF ChannelRow
    <3> QED BY <2>2, <3>3, RowPresent
  <2> QED BY <2>1, <2>2
<1>2. IsDoc(e)
  BY <1>1 DEF IsDoc, Parts
<1>3. Rows(d) = Rows(e)
  BY <1>1 DEF Rows
<1> QED BY <1>1, <1>2, <1>3 DEF SameRows, Rows

\* No edit of a tab adds a row, drops one or moves it.
LEMMA Edited ==
  ASSUME NEW t, NEW d, IsDoc(d), NEW op,
         op[1] \in {"lockout", "unlock", "dismiss", "restore", "knob", "undo"},
         op[1] = "undo" => Restores(snap[t])
  PROVE  IsDoc(Edit(t, d, op)) /\ SameRows(d, Edit(t, d, op))
<1> DEFINE e == Edit(t, d, op)
<1>1. CASE op[1] = "lockout"
  <2> DEFINE new == [r \in ToSet(Row) |->
                      IF d.rows[r] # Absent /\ d.rows[r].freq = op[2] THEN [d.rows[r] EXCEPT !.on = FALSE] ELSE d.rows[r]]
  <2>1. e = LockoutIn(d, op[2])
    BY <1>1 DEF Edit
  <2>2. e.rows = new /\ Parts(e)
    BY <2>1 DEF LockoutIn, IsDoc, Parts
  <2>3. \A r \in ToSet(Row) :
           \/ new[r] = d.rows[r]
           \/ d.rows[r] # Absent /\ \E b \in BOOLEAN : new[r] = [d.rows[r] EXCEPT !.on = b]
    OBVIOUS
  <2> HIDE DEF new, e
  <2>4. e.rows = [r \in ToSet(Row) |-> new[r]]
    BY <2>2 DEF new
  <2> QED BY <2>2, <2>3, <2>4, Switched, ZenonT(40) DEF e
<1>2. CASE op[1] = "unlock"
  <2> DEFINE new == [r \in ToSet(Row) |->
                      IF d.rows[r] # Absent /\ d.rows[r].freq = op[2] THEN [d.rows[r] EXCEPT !.on = TRUE] ELSE d.rows[r]]
  <2>1. e = UnlockIn(d, op[2])
    BY <1>2 DEF Edit
  <2>2. e.rows = new /\ Parts(e)
    BY <2>1 DEF UnlockIn, IsDoc, Parts
  <2>3. \A r \in ToSet(Row) :
           \/ new[r] = d.rows[r]
           \/ d.rows[r] # Absent /\ \E b \in BOOLEAN : new[r] = [d.rows[r] EXCEPT !.on = b]
    OBVIOUS
  <2> HIDE DEF new, e
  <2>4. e.rows = [r \in ToSet(Row) |-> new[r]]
    BY <2>2 DEF new
  <2> QED BY <2>2, <2>3, <2>4, Switched, ZenonT(40) DEF e
<1>3. CASE op[1] = "undo"
  <2> DEFINE s == snap[t]
  <2> DEFINE new == [r \in ToSet(Row) |->
                      IF d.rows[r] # Absent /\ r \in DOMAIN s.on THEN [d.rows[r] EXCEPT !.on = s.on[r]] ELSE d.rows[r]]
  <2>1. e = UndoIn(d, s)
    BY <1>3 DEF Edit
  <2>2. e.rows = new /\ Parts(e)
    BY <2>1 DEF UndoIn, IsDoc, Parts
  <2>3. \A r \in ToSet(Row) :
           \/ new[r] = d.rows[r]
           \/ d.rows[r] # Absent /\ \E b \in BOOLEAN : new[r] = [d.rows[r] EXCEPT !.on = b]
    BY <1>3 DEF Restores
  <2> HIDE DEF new, e
  <2>4. e.rows = [r \in ToSet(Row) |-> new[r]]
    BY <2>2 DEF new
  <2> QED BY <2>2, <2>3, <2>4, Switched, ZenonT(40) DEF e
<1>4. CASE op[1] \in {"dismiss", "restore", "knob"}
  <2>1. e \in {DismissIn(d, op[2]), RestoreIn(d, op[2]), KnobIn(d, op[2])}
    BY <1>4 DEF Edit
  <2>2. e.rows = d.rows /\ Parts(e)
    <3>1. CASE e = DismissIn(d, op[2])
      BY <3>1 DEF DismissIn, IsDoc, Parts
    <3>2. CASE e = RestoreIn(d, op[2])
      BY ZenonT(60), <3>2 DEF RestoreIn, IsDoc, Parts
    <3>3. CASE e = KnobIn(d, op[2])
      BY <3>3 DEF KnobIn, IsDoc, Parts
    <3> QED BY <2>1, <3>1, <3>2, <3>3
  <2> HIDE DEF e
  <2> QED BY <2>2 DEF e, IsDoc, Parts, SameRows, Rows
<1> QED BY <1>1, <1>2, <1>3, <1>4

\* Lists and settings are not rows.
LEMMA Unswitched ==
  ASSUME NEW d, IsDoc(d), NEW e, Parts(e), e.rows = d.rows
  PROVE  IsDoc(e) /\ SameScan(d, e)
BY DEF IsDoc, Parts, SameScan, SameRows, Rows

\* A row that is replaced by one that is scanned on the same frequency.
LEMMA RowReplaced ==
  ASSUME NEW d, IsDoc(d), NEW e, Parts(e), NEW r \in Rows(d), NEW c \in ChannelRow,
         e.rows = [d.rows EXCEPT ![r] = c]
  PROVE  /\ IsDoc(e)
         /\ Rows(e) = Rows(d)
         /\ c.freq = d.rows[r].freq /\ c.on = d.rows[r].on => SameScan(d, e)
<1>1. r \in ToSet(Row) /\ d.rows[r] # Absent /\ c # Absent
  BY RowPresent DEF Rows
<1>2. \A q \in ToSet(Row) : e.rows[q] = IF q = r THEN c ELSE d.rows[q]
  BY DEF IsDoc
<1>3. IsDoc(e)
  BY <1>1 DEF IsDoc, Parts
<1>4. Rows(e) = Rows(d)
  BY <1>1, <1>2 DEF Rows
<1>5. Rows(d) \subseteq ToSet(Row)
  BY DEF Rows
<1> QED BY <1>2, <1>3, <1>4, <1>5 DEF SameScan, SameRows

\* An answer or a measurement changes a row, never what is scanned.
LEMMA AnsweredRows ==
  ASSUME NEW d, IsDoc(d), NEW a, NEW hit \in BOOLEAN
  PROVE  IsDoc(Answered(d, a, hit)) /\ SameScan(d, Answered(d, a, hit))
<1> DEFINE e == Answered(d, a, hit)
<1>1. CASE a[1] = "row" /\ d.rows[a[2]] # Absent /\ a[2] \in ToSet(Row)
  <2> DEFINE r == a[2]
  <2> DEFINE c == LookedUp(d.rows[r], hit)
  <2>1. r \in Rows(d) /\ d.rows[r] \in ChannelRow
    BY <1>1, RowsOf DEF Rows, IsDoc
  <2>2. e = [d EXCEPT !.rows[r] = LookedUp(@, hit)]
    BY <1>1 DEF Answered
  <2>3. Parts(e) /\ e.rows = [d.rows EXCEPT ![r] = c]
    BY <2>1, <2>2 DEF IsDoc, Parts
  <2>4. c \in ChannelRow /\ c.freq = d.rows[r].freq /\ c.on = d.rows[r].on
    BY <2>1 DEF LookedUp, ChannelRow
  <2> HIDE DEF c, e
  <2> QED BY <2>1, <2>3, <2>4, RowReplaced DEF e
<1>2. CASE a[1] = "row" /\ (d.rows[a[2]] = Absent \/ a[2] \notin ToSet(Row))
  <2>1. Parts(e) /\ e.rows = d.rows
    BY <1>2 DEF Answered, IsDoc, Parts
  <2> HIDE DEF e
  <2> QED BY <2>1, Unswitched DEF e
<1>3. CASE a[1] # "row"
  <2>1. Parts(e) /\ e.rows = d.rows
    BY <1>3 DEF Answered, IsDoc, Parts
  <2> HIDE DEF e
  <2> QED BY <2>1, Unswitched DEF e
<1> QED BY <1>1, <1>2, <1>3

\* A measurement is nothing an operator sees.
LEMMA MeasuredRow ==
  ASSUME NEW d, IsDoc(d), NEW r \in Rows(d)
  PROVE  LET e == [d EXCEPT !.rows[r].heard = 1 - @]
         IN  IsDoc(e) /\ SameScan(d, e) /\ e.volume = d.volume /\ Visible(e) = Visible(d)
<1> DEFINE e == [d EXCEPT !.rows[r].heard = 1 - @]
<1> DEFINE c == [d.rows[r] EXCEPT !.heard = 1 - @]
<1>1. d.rows[r] \in ChannelRow /\ r \in ToSet(Row)
  BY RowsOf
<1>2. c \in ChannelRow /\ c.freq = d.rows[r].freq /\ c.on = d.rows[r].on
  <2>1. 1 - d.rows[r].heard \in {0, 1}
    BY <1>1 DEF ChannelRow
  <2> QED BY <1>1, <2>1 DEF ChannelRow
<1>6. [c EXCEPT !.heard = 0] = [d.rows[r] EXCEPT !.heard = 0]
  BY <1>1 DEF ChannelRow
<1>3. /\ Parts(e) /\ e.rows = [d.rows EXCEPT ![r] = c]
      /\ e.finds = d.finds /\ e.lockout = d.lockout /\ e.knob = d.knob /\ e.volume = d.volume
  BY <1>1 DEF IsDoc, Parts, ChannelRow
<1> HIDE DEF c, e
<1>4. IsDoc(e) /\ SameScan(d, e)
  BY <1>2, <1>3, RowReplaced
<1>5. Visible(e) = Visible(d)
  <2> DEFINE Seen(x) == [q \in ToSet(Row) |-> IF x.rows[q] = Absent THEN Absent ELSE [x.rows[q] EXCEPT !.heard = 0]]
  <2>1. c # Absent /\ d.rows[r] # Absent
    BY <1>1, <1>2, RowPresent
  <2>2. \A q \in ToSet(Row) : e.rows[q] = IF q = r THEN c ELSE d.rows[q]
    BY <1>3 DEF IsDoc
  <2>3. Seen(e) = Seen(d)
    BY <1>6, <2>1, <2>2
  <2>4. \A x : IsDoc(x) => Visible(x) = [rows |-> Seen(x), finds |-> x.finds, lockout |-> x.lockout,
                                       knob |-> x.knob, volume |-> x.volume]
    BY DEF Visible, IsDoc
  <2> HIDE DEF Seen
  <2> QED BY <1>3, <1>4, <2>3, <2>4
<1> QED BY <1>3, <1>4, <1>5 DEF e

\* One row comes, or goes elsewhere, where no other is.
LEMMA NoTwinMade ==
  ASSUME NEW d, NEW e, NEW r, Rows(e) \subseteq Rows(d) \cup {r},
         \A q \in Rows(e) \ {r} : e.rows[q].freq = d.rows[q].freq /\ e.rows[q].freq # e.rows[r].freq
  PROVE  Twins(e) \subseteq Twins(d)
<1>1. {x \in Rows(e) \X Rows(e) : x[1] # x[2] /\ e.rows[x[1]].freq = e.rows[x[2]].freq}
      \subseteq {x \in Rows(d) \X Rows(d) : x[1] # x[2] /\ d.rows[x[1]].freq = d.rows[x[2]].freq}
  OBVIOUS
<1> QED BY <1>1 DEF Twins

\* The channel routes make a document of a document, and no twins.
LEMMA Routed ==
  ASSUME NEW d, IsDoc(d), NEW e \in AddRow(d) \cup MoveRow(d) \cup DropRow(d) \cup Resolve(d)
  PROVE  IsDoc(e) /\ Twins(e) \subseteq Twins(d)
<1>1. CASE e \in AddRow(d)
  <2>1. PICK r \in Unused(d), f \in {x \in Freq : ~Taken(d, x, 0)} : e = [d EXCEPT !.rows[r] = Channel(f)]
    BY <1>1 DEF AddRow
  <2>2. r \in ToSet(Row) /\ Channel(f) \in ChannelRow /\ Channel(f).freq = f
    BY DEF Unused, ChannelRow, Channel
  <2>3. Parts(e) /\ e.rows = [d.rows EXCEPT ![r] = Channel(f)]
    BY <2>1, <2>2 DEF IsDoc, Parts
  <2>4. IsDoc(e)
    BY <2>2, <2>3 DEF IsDoc, Parts
  <2>5. \A q \in ToSet(Row) : e.rows[q] = IF q = r THEN Channel(f) ELSE d.rows[q]
    BY <2>3 DEF IsDoc
  <2>6. Rows(e) \subseteq Rows(d) \cup {r}
    BY <2>5 DEF Rows
  <2>7. 0 \notin ToSet(Row) /\ Rows(d) \subseteq ToSet(Row)
    BY RowsAssumption DEF Rows, ToSet
  <2>8. \A q \in Rows(d) : d.rows[q].freq # f
    BY <2>7 DEF Taken
  <2>9. \A q \in Rows(e) \ {r} : e.rows[q].freq = d.rows[q].freq /\ e.rows[q].freq # e.rows[r].freq
    BY <2>2, <2>5, <2>6, <2>7, <2>8
  <2> QED BY <2>4, <2>6, <2>9, NoTwinMade
<1>2. CASE e \in MoveRow(d)
  <2>1. PICK r \in Rows(d) : e \in {[d EXCEPT !.rows[r].freq = f] : f \in {x \in Freq : ~Taken(d, x, r)}}
    BY <1>2 DEF MoveRow
  <2>2. PICK f \in {x \in Freq : ~Taken(d, x, r)} : e = [d EXCEPT !.rows[r].freq = f]
    BY <2>1
  <2> DEFINE c == [d.rows[r] EXCEPT !.freq = f]
  <2>3. r \in ToSet(Row) /\ d.rows[r] \in ChannelRow
    BY RowsOf
  <2>4. c \in ChannelRow /\ c.freq = f
    BY <2>3 DEF ChannelRow
  <2>5. Parts(e) /\ e.rows = [d.rows EXCEPT ![r] = c]
    BY <2>2, <2>3 DEF IsDoc, Parts
  <2> HIDE DEF c
  <2>6. IsDoc(e) /\ Rows(e) = Rows(d)
    BY <2>4, <2>5, RowReplaced
  <2>7. \A q \in ToSet(Row) : e.rows[q] = IF q = r THEN c ELSE d.rows[q]
    BY <2>5 DEF IsDoc
  <2>8. Rows(d) \subseteq ToSet(Row) /\ \A q \in Rows(d) \ {r} : d.rows[q].freq # f
    BY DEF Taken, Rows
  <2>9. \A q \in Rows(e) \ {r} : e.rows[q].freq = d.rows[q].freq /\ e.rows[q].freq # e.rows[r].freq
    BY <2>3, <2>4, <2>6, <2>7, <2>8
  <2> QED BY <2>6, <2>9, NoTwinMade
<1>3. CASE e \in DropRow(d) \cup Resolve(d)
  <2>1. /\ Parts(e) /\ e.rows \in [ToSet(Row) -> ChannelRow \cup {Absent}]
        /\ \A q \in ToSet(Row) : e.rows[q] \in {d.rows[q], Absent}
    <3>1. CASE e \in DropRow(d)
      <4>1. PICK r \in Rows(d) : e = [d EXCEPT !.rows[r] = Absent]
        BY <3>1 DEF DropRow
      <4>2. Parts(e) /\ e.rows = [d.rows EXCEPT ![r] = Absent] /\ r \in ToSet(Row)
        BY <4>1 DEF IsDoc, Parts, Rows
      <4> QED BY <4>2 DEF IsDoc
    <3>2. CASE e \in Resolve(d)
      <4> DEFINE new == [r \in ToSet(Row) |->
                          IF r \in Rows(d) /\ \E q \in Rows(d) : Richer(d, q, r) THEN Absent ELSE d.rows[r]]
      <4>1. e = [d EXCEPT !.rows = new]
        BY <3>2 DEF Resolve
      <4>2. \A r \in ToSet(Row) : new[r] \in {d.rows[r], Absent}
        OBVIOUS
      <4>3. DOMAIN new = ToSet(Row)
        OBVIOUS
      <4>5. new = [r \in ToSet(Row) |-> new[r]]
        OBVIOUS
      <4> HIDE DEF new
      <4>4. Parts(e) /\ e.rows = new
        BY <4>1 DEF IsDoc, Parts
      <4> QED BY <4>2, <4>3, <4>4, <4>5 DEF IsDoc
    <3> QED BY <1>3, <3>1, <3>2
  <2>2. IsDoc(e)
    BY <2>1 DEF IsDoc, Parts
  <2>3. Rows(e) \subseteq Rows(d) /\ \A r \in Rows(e) : e.rows[r].freq = d.rows[r].freq
    BY <2>1 DEF Rows
  <2> QED BY <2>2, <2>3, FewerTwins
<1> QED BY <1>1, <1>2, <1>3

-----------------------------------------------------------------------------
(* Revisions and files. *)

\* The revision of a save or of a new process is on no copy.
LEMMA Outdated ==
  ASSUME NEW a \in Nat \X Nat, NEW b \in Nat \X Nat, NotLater(a, b)
  PROVE  /\ a # Bump(b) /\ NotLater(a, Bump(b)) /\ Bump(b) \in Nat \X Nat
         /\ a # FirstTag(b) /\ NotLater(a, FirstTag(b)) /\ FirstTag(b) \in Nat \X Nat
BY DEF NotLater, Bump, FirstTag

\* A document that is its own file is written, whoever works on it.
LEMMA WrittenItself == ASSUME NEW d, IsDoc(d) PROVE Written(d, d)
<1>1. [d EXCEPT !.volume = d.volume] = d
  BY DEF IsDoc
<1> QED BY <1>1, DocGood DEF Written

\* After a save the file is the document, and no copy is taken any more.
LEMMA Saved ==
  ASSUME TagsInOrder, DocumentsWhole, FileWritten, up, IsDoc(config'),
         tag' = Bump(tag), main' = config', bak' = main,
         \A t \in Tab : copy'[t] = copy[t] \/ copy'[t] = NoCopy
  PROVE  /\ TagsInOrder' /\ CopiesFresh' /\ FileWritten'
         /\ IsDoc(main') /\ IsDoc(bak')
<1>1. TagsInOrder'
  <2>1. tag' \in Nat \X Nat
    BY DEF TagsInOrder, Bump
  <2>2. ASSUME NEW t \in Tab, copy'[t] # NoCopy
        PROVE  copy'[t].tag \in Nat \X Nat /\ NotLater(copy'[t].tag, tag')
    <3>1. copy'[t] = copy[t]
      BY <2>2
    <3> QED BY <2>2, <3>1, Outdated DEF TagsInOrder
  <2> QED BY <2>1, <2>2 DEF TagsInOrder
<1>2. CopiesFresh'
  BY Outdated DEF TagsInOrder, CopiesFresh
<1>3. FileWritten'
  <2>1. Written(config, config)'
    BY WrittenItself DEF Written
  <2> QED BY <2>1 DEF FileWritten, Written
<1>4. IsDoc(main') /\ IsDoc(bak')
  BY DEF FileWritten, Written, DocumentsWhole
<1> QED BY <1>1, <1>2, <1>3, <1>4

\* What does not change what is scanned leaves the scanner right.
LEMMA ScannerRight ==
  ASSUME EngineTold, SameScan(config, config'), tuned' = tuned, known' = known,
         up' => up, handler'.kind # "restart" => handler.kind # "restart"
  PROVE  EngineTold'
<1>1. TunedTo(config') = TunedTo(config)
  BY SameTunes
<1>2. TunedTo(config)' = TunedTo(config')
  BY DEF TunedTo, Rows
<1>3. Rows(config)' = Rows(config)
  BY DEF SameScan, SameRows, Rows
<1> QED BY <1>1, <1>2, <1>3 DEF EngineTold, SameScan, SameRows

-----------------------------------------------------------------------------
(* The invariant. *)

\* What the scanner is told of a document fits it.
LEMMA ToldOf ==
  ASSUME tuned' = TunedTo(config'), known' = KnownHz(config')
  PROVE  EngineTold'
<1>1. TunedTo(config)' = TunedTo(config') /\ Rows(config)' = Rows(config')
  BY DEF TunedTo, Rows
<1> QED BY <1>1, RowsKnown DEF EngineTold

LEMMA StartIsDoc == ASSUME NEW twins \in BOOLEAN PROVE IsDoc(Start(twins)) /\ IsDoc(Default)
<1>1. Channel(FirstFreq) \in ChannelRow
  BY RowsAssumption DEF Channel, ChannelRow
<1>2. IsDoc(Start(twins)) /\ IsDoc(Start(FALSE))
  BY <1>1 DEF Start, IsDoc
<1>3. Default \in [rows : [ToSet(Row) -> {Absent}], finds : {<< >>}, lockout : {<< >>}, knob : {0}, volume : {0}]
  <2>1. Start(FALSE) \in [rows : {Start(FALSE).rows}, finds : {<< >>}, lockout : {<< >>}, knob : {0}, volume : {0}]
    BY DEF Start
  <2>2. Default = [Start(FALSE) EXCEPT !.rows = [r \in ToSet(Row) |-> Absent]]
    BY DEF Default
  <2> QED BY <2>1, <2>2
<1> QED BY <1>2, <1>3 DEF IsDoc

LEMMA DocInit == Init => DocInv
<1> SUFFICES ASSUME Init PROVE DocInv
  OBVIOUS
<1> USE DEF Init
<1>1. IsDoc(config) /\ IsDoc(main) /\ ~Good(bak)
  BY StartIsDoc DEF Good, Missing
<1>2. \A t \in Tab : copy[t] = NoCopy /\ snap[t] = NoSnap
  OBVIOUS
<1>3. TagsInOrder
  BY <1>2 DEF TagsInOrder
<1>4. DocumentsWhole
  BY <1>1, <1>2 DEF DocumentsWhole
<1>5. CopiesFresh
  BY <1>2 DEF CopiesFresh
<1>6. FileWritten
  BY <1>1, WrittenItself DEF FileWritten
<1>7. EngineTold
  BY RowsKnown DEF EngineTold
<1> QED BY <1>3, <1>4, <1>5, <1>6, <1>7 DEF DocInv

\* A step that changes neither document, files, copies nor what the scanner
\* was told, and ends no chain of writes but a restart's.
LEMMA Still ==
  ASSUME DocInv, UNCHANGED <<up, config, main, bak, tag, snap, copy, handler, known, tuned, dirty>>
  PROVE  DocInv'
<1>1. TagsInOrder' /\ DocumentsWhole' /\ CopiesFresh' /\ FileWritten'
  BY DEF DocInv, TagsInOrder, DocumentsWhole, CopiesFresh, FileWritten, Written
<1>2. EngineTold'
  BY DEF DocInv, EngineTold, TunedTo, Rows
<1> QED BY <1>1, <1>2 DEF DocInv

LEMMA ReadStep ==
  ASSUME DocInv, NEW t \in Tab, Read(t)
  PROVE  DocInv'
<1>1. PICK op \in Ops(t, config) : copy' = [copy EXCEPT ![t] = [doc |-> config, tag |-> tag, op |-> op]]
  BY DEF Read
<1>2. UNCHANGED <<up, config, main, bak, tag, handler, snap, known, tuned, dirty>>
  BY DEF Read
<1>3. /\ op[1] \in {"lockout", "unlock", "dismiss", "restore", "knob", "undo"}
      /\ op[1] = "undo" => snap[t] # NoSnap
  BY DEF Ops
<1>4. \A u \in Tab : copy'[u] = IF u = t THEN [doc |-> config, tag |-> tag, op |-> op] ELSE copy[u]
  BY <1>1 DEF DocInv, DocumentsWhole
<1>5. TagsInOrder'
  BY <1>2, <1>4 DEF DocInv, TagsInOrder, NotLater
<1>6. DocumentsWhole'
  BY <1>1, <1>2, <1>3, <1>4 DEF DocInv, DocumentsWhole
<1>7. CopiesFresh'
  BY <1>2, <1>4 DEF DocInv, CopiesFresh
<1>8. FileWritten' /\ EngineTold'
  BY <1>2 DEF DocInv, FileWritten, Written, EngineTold, TunedTo, Rows
<1> QED BY <1>5, <1>6, <1>7, <1>8 DEF DocInv

LEMMA RefuseStep ==
  ASSUME DocInv, NEW t \in Tab, Refuse(t)
  PROVE  DocInv'
<1>1. copy' = [copy EXCEPT ![t] = NoCopy] /\ UNCHANGED <<up, config, main, bak, tag, handler, snap, known, tuned, dirty>>
  BY DEF Refuse
<1>2. \A u \in Tab : copy'[u] = IF u = t THEN NoCopy ELSE copy[u]
  BY <1>1 DEF DocInv, DocumentsWhole
<1>3. TagsInOrder' /\ CopiesFresh'
  BY <1>1, <1>2 DEF DocInv, TagsInOrder, CopiesFresh
<1>4. DocumentsWhole'
  BY <1>1, <1>2 DEF DocInv, DocumentsWhole
<1>5. FileWritten' /\ EngineTold'
  BY <1>1 DEF DocInv, FileWritten, Written, EngineTold, TunedTo, Rows
<1> QED BY <1>3, <1>4, <1>5 DEF DocInv

\* An edit that is taken is made on what the operator sees of the document.
LEMMA TakenEdit ==
  ASSUME DocInv, NEW t \in Tab, up, handler = Free, copy[t] # NoCopy, ~Stale(t)
  PROVE  LET new == Edit(t, copy[t].doc, copy[t].op)
         IN  /\ IsDoc(new) /\ SameRows(config, new)
             /\ \A r \in Rows(config) : new.rows[r].freq = config.rows[r].freq
<1> DEFINE d == copy[t].doc
<1> DEFINE new == Edit(t, d, copy[t].op)
<1>1. IsDoc(d) /\ IsDoc(config) /\ IsDoc(new) /\ SameRows(d, new)
  BY Edited DEF DocInv, DocumentsWhole
<1>2. Visible(d) = Visible(config)
  <2>1. handler.kind # "mixer"
    BY DEF Free
  <2> QED BY <2>1 DEF DocInv, CopiesFresh, Stale
<1>3. SameScan(d, config)
  BY <1>1, <1>2, VisibleRows
<1> HIDE DEF d, new
<1>4. SameRows(config, new)
  BY <1>1, <1>3 DEF SameScan, SameRows
<1> QED BY <1>1, <1>4 DEF SameRows, new, d

LEMMA PutStep ==
  ASSUME DocInv, NEW t \in Tab, Put(t)
  PROVE  DocInv'
<1> DEFINE new == Edit(t, copy[t].doc, copy[t].op)
<1>1. /\ up /\ up' /\ handler = Free /\ copy[t] # NoCopy /\ ~Stale(t)
      /\ config' = new /\ SaveConfig(new) /\ Repoint(config, new)
      /\ copy' = [copy EXCEPT ![t] = NoCopy]
      /\ UNCHANGED <<up, dirty>>
  BY DEF Put
<1>2. IsDoc(new) /\ SameRows(config, new)
  BY <1>1, TakenEdit
<1> HIDE DEF new
<1>3. tag' = Bump(tag) /\ main' = config' /\ bak' = main
  BY <1>1 DEF SaveConfig, SavedFiles
<1>4. DOMAIN copy' = Tab /\ \A u \in Tab : copy'[u] = copy[u] \/ copy'[u] = NoCopy
  BY <1>1 DEF DocInv, DocumentsWhole
<1>5. /\ TagsInOrder' /\ CopiesFresh' /\ FileWritten'
      /\ IsDoc(main') /\ IsDoc(bak')
  BY <1>1, <1>2, <1>3, <1>4, Saved DEF DocInv
<1>6. handler' \in {Free, [kind |-> "restart"]}
  BY <1>1 DEF Repoint
<1>7. DOMAIN snap' = Tab /\ \A u \in Tab : snap'[u] # NoSnap => Restores(snap'[u])
  <2>1. copy[t].op[1] \in {"lockout", "unlock", "dismiss", "restore", "knob", "undo"}
    BY <1>1 DEF DocInv, DocumentsWhole
  <2>2. PICK put : /\ snap' = [snap EXCEPT ![t] = put]
                   /\ put \in {SnapOf(copy[t].doc, copy[t].op), NoSnap, snap[t]}
                   /\ put = SnapOf(copy[t].doc, copy[t].op) \/ put \in {NoSnap, snap[t]}
                   /\ copy[t].op[1] \notin {"lockout", "unlock", "dismiss"} => put \in {NoSnap, snap[t]}
    BY DEF Put
  <2>3. copy[t].op[1] \in {"lockout", "unlock", "dismiss"} => Restores(SnapOf(copy[t].doc, copy[t].op))
    <3> DEFINE d == copy[t].doc
    <3> DEFINE op == copy[t].op
    <3>1. IsDoc(d)
      BY <1>1 DEF DocInv, DocumentsWhole
    <3>2. CASE op[1] \in {"lockout", "unlock"}
      <4>1. SnapOf(d, op).on = [r \in {q \in Rows(d) : d.rows[q].freq = op[2]} |-> d.rows[r].on]
        BY <3>2 DEF SnapOf
      <4>2. \A r \in Rows(d) : d.rows[r].on \in BOOLEAN
        BY <3>1, RowsOf DEF ChannelRow
      <4> QED BY <4>1, <4>2 DEF Restores
    <3>3. CASE op[1] = "dismiss"
      <4>1. SnapOf(d, op).on = << >>
        BY <3>3 DEF SnapOf
      <4> QED BY <4>1 DEF Restores
    <3> QED BY <3>2, <3>3
  <2> QED BY <2>2, <2>3 DEF DocInv, DocumentsWhole
<1>8. DocumentsWhole'
  <2>1. ASSUME NEW u \in Tab, copy'[u] # NoCopy
        PROVE  u # t /\ copy'[u] = copy[u] /\ snap'[u] = snap[u]
    <3>1. u # t /\ copy'[u] = copy[u]
      BY <1>1, <2>1 DEF DocInv, DocumentsWhole
    <3>2. PICK put : snap' = [snap EXCEPT ![t] = put]
      BY DEF Put
    <3> QED BY <3>1, <3>2 DEF DocInv, DocumentsWhole
  <2> QED BY <1>1, <1>2, <1>4, <1>5, <1>6, <1>7, <2>1 DEF DocInv, DocumentsWhole
<1>9. EngineTold'
  <2>1. CASE ScanPart(config) # ScanPart(new)
    <3>1. handler'.kind = "restart"
      BY <1>1, <2>1 DEF Repoint
    <3> QED BY <3>1 DEF EngineTold
  <2>2. CASE ScanPart(config) = ScanPart(new)
    <3>1. /\ handler' = handler /\ tuned' = tuned
          /\ known' = IF KnownHz(config) # KnownHz(new) THEN KnownHz(new) ELSE known
      BY <1>1, <2>2 DEF Repoint
    <3>2. Scanned(config) = Scanned(new)
      BY <2>2 DEF ScanPart
    <3>3. tuned' = TunedTo(config')
      <4>1. tuned = TunedTo(config)
        BY <1>1 DEF DocInv, EngineTold, Free
      <4> QED BY <1>1, <3>1, <3>2, <4>1, ScannedTunes
    <3>4. TunedTo(config)' = TunedTo(config') /\ Rows(config)' = Rows(config')
      BY DEF TunedTo, Rows
    <3>5. \A r \in Rows(config') : config'.rows[r].freq \in HzIn(known')
      <4>1. CASE known' = KnownHz(new)
        BY <1>1, <4>1, RowsKnown
      <4>2. CASE known' = known
        <5>1. \A r \in Rows(config) : config.rows[r].freq \in HzIn(known)
          BY <1>1 DEF DocInv, EngineTold, Free
        <5> QED BY <1>1, <1>2, <4>2, <5>1 DEF SameRows
      <4> QED BY <3>1, <4>1, <4>2
    <3>6. HzIn(known)' = HzIn(known')
      BY DEF HzIn
    <3> QED BY <3>3, <3>4, <3>5, <3>6 DEF EngineTold
  <2> QED BY <2>1, <2>2
<1> QED BY <1>5, <1>8, <1>9 DEF DocInv

LEMMA ChannelRouteStep ==
  ASSUME DocInv, ChannelRoute
  PROVE  DocInv'
<1>1. PICK new \in AddRow(config) \cup MoveRow(config) \cup DropRow(config) \cup Resolve(config) :
        config' = new /\ SaveConfig(new)
  BY DEF ChannelRoute
<1>2. up /\ handler' = [kind |-> "restart"] /\ UNCHANGED <<up, copy, snap, known, tuned>>
  BY DEF ChannelRoute
<1>3. IsDoc(config')
  BY <1>1, Routed DEF DocInv, DocumentsWhole
<1>4. /\ TagsInOrder' /\ CopiesFresh' /\ FileWritten'
      /\ IsDoc(main') /\ IsDoc(bak')
  BY <1>1, <1>2, <1>3, Saved DEF DocInv, SaveConfig, SavedFiles
<1>5. DocumentsWhole'
  BY <1>2, <1>3, <1>4 DEF DocInv, DocumentsWhole
<1>6. EngineTold'
  BY <1>2 DEF EngineTold
<1> QED BY <1>4, <1>5, <1>6 DEF DocInv

LEMMA RepointedStep ==
  ASSUME DocInv, Repointed
  PROVE  DocInv'
<1>1. /\ handler.kind = "restart" /\ handler' = Free
      /\ known' = KnownHz(config) /\ tuned' = TunedTo(config)
      /\ UNCHANGED <<up, config, main, bak, tag, copy, snap, dirty>>
  BY DEF Repointed
<1>2. TagsInOrder' /\ DocumentsWhole'
  BY <1>1 DEF DocInv, TagsInOrder, DocumentsWhole
<1>3. CopiesFresh' /\ FileWritten'
  BY <1>1 DEF DocInv, CopiesFresh, FileWritten, Written, Free
<1>4. EngineTold'
  BY <1>1, ToldOf
<1> QED BY <1>2, <1>3, <1>4 DEF DocInv

LEMMA VolumeStep ==
  ASSUME DocInv, Volume
  PROVE  DocInv'
<1> DEFINE new == [config EXCEPT !.volume = 1 - @]
<1>1. /\ up /\ handler = Free /\ config' = new /\ handler' = [kind |-> "mixer"]
      /\ UNCHANGED <<up, main, bak, tag, copy, snap, known, tuned, dirty>>
  BY DEF Volume
<1>2. IsDoc(config)
  BY DEF DocInv, DocumentsWhole
<1>3. /\ Parts(new) /\ new.rows = config.rows /\ new.finds = config.finds
      /\ new.lockout = config.lockout /\ new.knob = config.knob
  BY <1>2 DEF IsDoc, Parts
<1> HIDE DEF new
<1>4. IsDoc(new) /\ SameScan(config, new)
  BY <1>2, <1>3, Unswitched
<1>5. TagsInOrder'
  BY <1>1 DEF DocInv, TagsInOrder
<1>6. DocumentsWhole'
  BY <1>1, <1>4 DEF DocInv, DocumentsWhole
<1>7. CopiesFresh'
  BY <1>1 DEF CopiesFresh
<1>8. FileWritten'
  <2>1. Good(main) /\ IsDoc(main) /\ main.volume = config.volume
        /\ Visible([main EXCEPT !.volume = config.volume]) = Visible(config)
    BY <1>1 DEF DocInv, FileWritten, Written, DocumentsWhole, Free
  <2>2. \A x, v : IsDoc(x) => Visible([x EXCEPT !.volume = v]) = [Visible(x) EXCEPT !.volume = v]
    BY ZenonT(40) DEF Visible, IsDoc
  <2>3. [main EXCEPT !.volume = config.volume] = main
    BY <2>1 DEF IsDoc
  <2>4. new = [config EXCEPT !.volume = new.volume]
    BY <1>2, <1>3 DEF IsDoc, Parts
  <2>5. Visible([main EXCEPT !.volume = new.volume]) = Visible(new)
    <3>1. Visible([main EXCEPT !.volume = new.volume]) = [Visible(main) EXCEPT !.volume = new.volume]
      BY <2>1, <2>2
    <3>2. Visible([config EXCEPT !.volume = new.volume]) = [Visible(config) EXCEPT !.volume = new.volume]
      BY <1>2, <2>2
    <3>3. Visible(main) = Visible(config)
      BY <2>1, <2>3
    <3> QED BY <2>4, <3>1, <3>2, <3>3
  <2>6. Visible([main EXCEPT !.volume = config.volume])' = Visible([main' EXCEPT !.volume = config'.volume])
    BY DEF Visible
  <2>7. Visible(config)' = Visible(config')
    BY DEF Visible
  <2>8. handler'.kind = "mixer" /\ Good(main)'
    BY <1>1, <2>1 DEF Good
  <2> QED BY <1>1, <2>5, <2>6, <2>7, <2>8 DEF FileWritten, Written
<1>9. EngineTold'
  BY <1>1, <1>4, ScannerRight DEF DocInv, Free
<1> QED BY <1>5, <1>6, <1>7, <1>8, <1>9 DEF DocInv

LEMMA MixedStep ==
  ASSUME DocInv, Mixed
  PROVE  DocInv'
<1>1. /\ up /\ handler.kind = "mixer" /\ handler' = Free /\ SaveConfig(config)
      /\ UNCHANGED <<up, config, copy, snap, known, tuned>>
  BY DEF Mixed
<1>2. IsDoc(config')
  BY <1>1 DEF DocInv, DocumentsWhole
<1>3. /\ TagsInOrder' /\ CopiesFresh' /\ FileWritten'
      /\ IsDoc(main') /\ IsDoc(bak')
  BY <1>1, <1>2, Saved DEF DocInv, SaveConfig, SavedFiles
<1>4. DocumentsWhole'
  BY <1>1, <1>2, <1>3 DEF DocInv, DocumentsWhole
<1>5. SameScan(config, config')
  BY <1>1 DEF SameScan, SameRows
<1>6. EngineTold'
  BY <1>1, <1>5, ScannerRight DEF DocInv
<1> QED BY <1>3, <1>4, <1>6 DEF DocInv

\* A change of the service itself: a save under a new revision, of a document
\* that scans the same.
LEMMA OwnWrite ==
  ASSUME DocInv, NEW new, IsDoc(new), SameScan(config, new), up,
         config' = new, SaveConfig(new), UNCHANGED <<up, handler, copy, snap, known, tuned>>
  PROVE  DocInv'
<1>1. /\ TagsInOrder' /\ CopiesFresh' /\ FileWritten'
      /\ IsDoc(main') /\ IsDoc(bak')
  BY Saved DEF DocInv, SaveConfig, SavedFiles
<1>2. DocumentsWhole'
  BY <1>1 DEF DocInv, DocumentsWhole
<1>3. EngineTold'
  BY ScannerRight DEF DocInv
<1> QED BY <1>1, <1>2, <1>3 DEF DocInv

LEMMA CloseCallStep ==
  ASSUME DocInv, NEW f \in Freq, CloseCall(f)
  PROVE  DocInv'
<1>1. UNCHANGED <<up, handler, copy, snap, known, tuned, dirty>> /\ up
  BY DEF CloseCall
<1>2. IsDoc(config)
  BY DEF DocInv, DocumentsWhole
<1>3. CASE UNCHANGED <<config, main, bak, tag>>
  BY <1>1, <1>3, Still
<1>5. CASE \E list : LET new == [config EXCEPT !.finds = list] IN config' = new /\ SaveConfig(new)
  <2>1. PICK list : LET new == [config EXCEPT !.finds = list] IN config' = new /\ SaveConfig(new)
    BY <1>5
  <2> DEFINE new == [config EXCEPT !.finds = list]
  <2>2. Parts(new) /\ new.rows = config.rows /\ config' = new /\ SaveConfig(new)
    BY <1>2, <2>1 DEF IsDoc, Parts
  <2> HIDE DEF new
  <2>3. IsDoc(new) /\ SameScan(config, new)
    BY <1>2, <2>2, Unswitched
  <2> QED BY <1>1, <2>2, <2>3, OwnWrite
<1>4. ASSUME ~HasChannel(config, f), HasFind(config, f)
      PROVE  \E list : LET new == [config EXCEPT !.finds = list] IN config' = new /\ SaveConfig(new)
  <2>1. config' = HitAgain(config, f) /\ SaveConfig(HitAgain(config, f))
    BY <1>4 DEF CloseCall
  <2>2. \E list : HitAgain(config, f) = [config EXCEPT !.finds = list]
    BY Zenon DEF HitAgain
  <2> QED BY <2>1, <2>2
<1>6. ASSUME ~HasChannel(config, f), ~HasFind(config, f), ~(seen[f] + 1 < FileAfter)
      PROVE  \E list : LET new == [config EXCEPT !.finds = list] IN config' = new /\ SaveConfig(new)
  BY <1>6 DEF CloseCall
<1> QED BY <1>3, <1>4, <1>5, <1>6 DEF CloseCall

LEMMA AnswerStep ==
  ASSUME DocInv, NEW a \in asked, NEW hit \in BOOLEAN, Answer(a, hit)
  PROVE  DocInv'
<1>1. UNCHANGED <<up, handler, copy, snap, known, tuned, dirty>> /\ up
  BY DEF Answer
<1>2. CASE UNCHANGED <<config, main, bak, tag>>
  BY <1>1, <1>2, Still
<1>3. CASE config' = Answered(config, a, hit) /\ SaveConfig(Answered(config, a, hit))
  <2>1. IsDoc(Answered(config, a, hit)) /\ SameScan(config, Answered(config, a, hit))
    BY AnsweredRows DEF DocInv, DocumentsWhole
  <2> QED BY <1>1, <1>3, <2>1, OwnWrite
<1> QED BY <1>2, <1>3 DEF Answer

LEMMA MeasureStep ==
  ASSUME DocInv, NEW r, Measure(r)
  PROVE  DocInv'
<1> DEFINE new == [config EXCEPT !.rows[r].heard = 1 - @]
<1>1. /\ up /\ r \in Rows(config) /\ config' = new /\ dirty' = TRUE
      /\ UNCHANGED <<up, main, bak, tag, handler, copy, snap, known, tuned>>
  BY DEF Measure
<1>2. IsDoc(new) /\ SameScan(config, new) /\ new.volume = config.volume /\ Visible(new) = Visible(config)
  BY <1>1, MeasuredRow DEF DocInv, DocumentsWhole
<1> HIDE DEF new
<1>3. Visible(config)' = Visible(new)
  BY <1>1 DEF Visible
<1>4. TagsInOrder' /\ DocumentsWhole'
  BY <1>1, <1>2 DEF DocInv, TagsInOrder, DocumentsWhole
<1>5. CopiesFresh'
  <2>1. ASSUME NEW t \in Tab PROVE Visible(copy[t].doc)' = Visible(copy[t].doc)
    BY <1>1 DEF Visible
  <2> QED BY <1>1, <1>2, <1>3, <2>1 DEF DocInv, CopiesFresh
<1>6. FileWritten'
  <2>1. Visible([main EXCEPT !.volume = config.volume])' = Visible([main EXCEPT !.volume = config.volume])
    BY <1>1, <1>2 DEF Visible
  <2> QED BY <1>1, <1>2, <1>3, <2>1 DEF DocInv, FileWritten, Written
<1>7. EngineTold'
  BY <1>1, <1>2, ScannerRight DEF DocInv
<1> QED BY <1>4, <1>5, <1>6, <1>7 DEF DocInv

LEMMA TelemetrySaveStep ==
  ASSUME DocInv, TelemetrySave
  PROVE  DocInv'
<1>1. /\ up /\ main' = config
      /\ UNCHANGED <<up, config, bak, tag, handler, copy, snap, known, tuned>>
  BY DEF TelemetrySave, SaveTelemetry
<1>2. TagsInOrder' /\ DocumentsWhole' /\ CopiesFresh'
  BY <1>1 DEF DocInv, TagsInOrder, DocumentsWhole, CopiesFresh
<1>3. FileWritten'
  <2>1. Written(config, config)'
    BY <1>1, WrittenItself DEF DocInv, DocumentsWhole, Written
  <2> QED BY <1>1, <2>1 DEF FileWritten, Written
<1>4. EngineTold'
  BY <1>1 DEF DocInv, EngineTold, TunedTo, Rows
<1> QED BY <1>2, <1>3, <1>4 DEF DocInv

\* Whatever the power failure left in the files is whole or not good.
LEMMA DownStep ==
  ASSUME DocInv, Down, Good(main') => IsDoc(main'), Good(bak') => IsDoc(bak')
  PROVE  DocInv'
<1>1. /\ ~up' /\ handler' = Free /\ config' = Default
      /\ UNCHANGED <<tag, copy, snap>>
  BY DEF Down
<1>2. IsDoc(Default)
  BY StartIsDoc
<1>3. TagsInOrder' /\ DocumentsWhole'
  BY <1>1, <1>2 DEF DocInv, TagsInOrder, DocumentsWhole, Good
<1>4. CopiesFresh' /\ FileWritten' /\ EngineTold'
  BY <1>1 DEF CopiesFresh, FileWritten, EngineTold
<1> QED BY <1>3, <1>4 DEF DocInv

LEMMA CrashInPutStep ==
  ASSUME DocInv, NEW t \in Tab, CrashInPut(t)
  PROVE  DocInv'
<1> DEFINE new == Edit(t, copy[t].doc, copy[t].op)
<1>1. /\ up /\ handler = Free /\ copy[t] # NoCopy /\ ~Stale(t) /\ Down
      /\ \E files \in CutFiles(new) : main' = files[1] /\ bak' = files[2]
  BY DEF CrashInPut
<1>2. IsDoc(new)
  BY <1>1, TakenEdit
<1> HIDE DEF new
<1>3. main' \in {main, new} /\ bak' \in {main, Torn}
  BY <1>1 DEF CutFiles
<1>4. (Good(main') => IsDoc(main')) /\ (Good(bak') => IsDoc(bak'))
  BY <1>2, <1>3 DEF DocInv, DocumentsWhole, Good
<1> QED BY <1>1, <1>4, DownStep

LEMMA CrashStep ==
  ASSUME DocInv, Crash
  PROVE  DocInv'
<1>1. Down /\ UNCHANGED <<main, bak>>
  BY DEF Crash
<1> QED BY <1>1, DownStep DEF DocInv, DocumentsWhole, Good

LEMMA HandEditStep ==
  ASSUME DocInv, HandEdit
  PROVE  DocInv'
<1>1. ~up /\ main' = Torn /\ UNCHANGED <<up, config, bak, tag, handler, copy, snap>>
  BY DEF HandEdit
<1>2. ~Good(main')
  BY <1>1 DEF Good
<1>3. TagsInOrder' /\ DocumentsWhole'
  BY <1>1, <1>2 DEF DocInv, TagsInOrder, DocumentsWhole, Good
<1>4. CopiesFresh' /\ FileWritten' /\ EngineTold'
  BY <1>1 DEF CopiesFresh, FileWritten, EngineTold
<1> QED BY <1>3, <1>4 DEF DocInv

LEMMA BootStep ==
  ASSUME DocInv, Boot
  PROVE  DocInv'
<1> DEFINE d == Loaded(main, bak)
<1>1. /\ config' = d /\ main' = d /\ bak' \in {bak, Missing}
      /\ known' = KnownHz(d) /\ tuned' = TunedTo(d)
      /\ tag' = FirstTag(tag) /\ UNCHANGED <<handler, copy, snap, dirty>>
  BY DEF Boot
<1>2. IsDoc(d)
  BY StartIsDoc DEF Loaded, DocInv, DocumentsWhole
<1> HIDE DEF d
<1>3. TagsInOrder'
  <2>1. tag' \in Nat \X Nat
    BY <1>1 DEF DocInv, TagsInOrder, FirstTag
  <2> QED BY <1>1, <2>1, Outdated DEF DocInv, TagsInOrder
<1>4. CopiesFresh'
  BY <1>1, Outdated DEF DocInv, TagsInOrder, CopiesFresh
<1>5. DocumentsWhole'
  BY <1>1, <1>2 DEF DocInv, DocumentsWhole, Good, Missing
<1>6. FileWritten'
  <2>1. Written(config, config)'
    BY <1>1, <1>2, WrittenItself DEF Written
  <2> QED BY <1>1, <2>1 DEF FileWritten, Written
<1>7. EngineTold'
  BY <1>1, ToldOf
<1> QED BY <1>3, <1>4, <1>5, <1>6, <1>7 DEF DocInv

\* DocInv is inductive.
LEMMA DocNext == DocInv /\ [Next]_vars => DocInv'
<1> SUFFICES ASSUME DocInv, [Next]_vars PROVE DocInv'
  OBVIOUS
<1>1. ASSUME NEW f \in Freq, Hear(f) PROVE DocInv'
  <2>1. UNCHANGED <<up, config, main, bak, tag, snap, copy, handler, known, tuned, dirty>>
    BY <1>1 DEF Hear
  <2> QED BY <2>1, Still
<1>2. ASSUME Ask PROVE DocInv'
  <2>1. UNCHANGED <<up, config, main, bak, tag, snap, copy, handler, known, tuned, dirty>>
    BY <1>2 DEF Ask
  <2> QED BY <2>1, Still
<1>3. ASSUME UNCHANGED vars PROVE DocInv'
  <2>1. UNCHANGED <<up, config, main, bak, tag, snap, copy, handler, known, tuned, dirty>>
    BY <1>3 DEF vars
  <2> QED BY <2>1, Still
<1> QED BY <1>1, <1>2, <1>3, ReadStep, RefuseStep, PutStep, CrashInPutStep, ChannelRouteStep,
           RepointedStep, VolumeStep, MixedStep, CloseCallStep, AnswerStep, MeasureStep,
           TelemetrySaveStep, CrashStep, HandEditStep, BootStep DEF Next

LEMMA DocAlways == Spec => []DocInv
BY DocInit, DocNext, PTL DEF Spec

-----------------------------------------------------------------------------
(* Results. *)

\* Whatever was written since a tab read its copy, an edit that is accepted
\* erases none of it, also across restarts and power failures; and between
\* requests the scanner scans the document's channels and the helper knows
\* them: for any tabs, rows, frequencies and bounds.
THEOREM InForceTheorem == Spec => []DocumentInForce
<1>1. DocInv => DocumentInForce
  <2> SUFFICES ASSUME DocInv PROVE DocumentInForce
    OBVIOUS
  <2>1. NothingErased
    BY DEF DocInv, CopiesFresh, NothingErased, Stale, Free
  <2>2. EngineFits
    BY DEF DocInv, EngineTold, EngineFits, Free
  <2> QED BY <2>1, <2>2 DEF DocumentInForce
<1> QED BY <1>1, DocAlways, PTL

\* What a boot may go on from: the file, or an edit that was being written.
LEMMA BootsFrom ==
  ASSUME DocInv, up, ~up', [Next]_vars
  PROVE  Loaded(main', bak') \in {main} \cup Sent
<1>1. Good(main)
  BY DEF DocInv, FileWritten, Written
<1>2. CASE Crash
  BY <1>1, <1>2 DEF Crash, Loaded
<1>3. ASSUME NEW t \in Tab, CrashInPut(t)
      PROVE  Loaded(main', bak') \in {main} \cup Sent
  <2> DEFINE new == Edit(t, copy[t].doc, copy[t].op)
  <2>1. /\ handler = Free /\ copy[t] # NoCopy /\ ~Stale(t)
        /\ \E files \in CutFiles(new) : main' = files[1] /\ bak' = files[2]
    BY <1>3 DEF CrashInPut
  <2>2. IsDoc(new)
    BY <2>1, TakenEdit
  <2>3. new \in Sent
    BY <2>1 DEF Sent
  <2> HIDE DEF new
  <2>4. main' \in {main, new}
    BY <2>1 DEF CutFiles
  <2> QED BY <1>1, <2>2, <2>3, <2>4, DocGood DEF Loaded
<1>4. CASE UNCHANGED vars
  BY <1>4 DEF vars
<1>5. Crash \/ UNCHANGED vars \/ \E t \in Tab : CrashInPut(t)
  BY DEF Next, Read, Refuse, Put, ChannelRoute, Repointed, Volume, Mixed, Hear, CloseCall, Ask,
         TelemetrySave, Answer, Measure, HandEdit, Boot
<1> QED BY <1>2, <1>3, <1>4, <1>5

\* No step of a running service makes a twin.
LEMMA NoStepTwins ==
  ASSUME DocInv, up, up', [Next]_vars
  PROVE  Twins(config') \subseteq Twins(config)
<1>1. IsDoc(config)
  BY DEF DocInv, DocumentsWhole
<1>2. ASSUME SameRows(config, config') PROVE Twins(config') \subseteq Twins(config)
  BY <1>2, FewerTwins DEF SameRows
<1>3. ASSUME config' = config PROVE Twins(config') \subseteq Twins(config)
  BY <1>3
<1>4. ASSUME NEW t \in Tab, Put(t) PROVE Twins(config') \subseteq Twins(config)
  <2>1. SameRows(config, config')
    BY <1>4, TakenEdit DEF Put
  <2> QED BY <1>2, <2>1
<1>5. CASE ChannelRoute
  BY <1>1, <1>5, Routed DEF ChannelRoute
<1>6. CASE Volume
  <2>1. config' = [config EXCEPT !.volume = 1 - @]
    BY <1>6 DEF Volume
  <2>2. Parts(config') /\ config'.rows = config.rows
    BY <1>1, <2>1 DEF IsDoc, Parts
  <2> QED BY <1>1, <1>2, <2>2, Unswitched DEF SameScan
<1>7. ASSUME NEW f \in Freq, CloseCall(f) PROVE Twins(config') \subseteq Twins(config)
  <2>1. config' = config \/ \E list : config' = [config EXCEPT !.finds = list]
    BY <1>7, Zenon DEF CloseCall, HitAgain
  <2>2. ASSUME NEW list, config' = [config EXCEPT !.finds = list] PROVE SameRows(config, config')
    <3>1. Parts(config') /\ config'.rows = config.rows
      BY <1>1, <2>2 DEF IsDoc, Parts
    <3> QED BY <1>1, <3>1, Unswitched DEF SameScan
  <2> QED BY <1>2, <1>3, <2>1, <2>2
<1>8. ASSUME NEW a \in asked, NEW hit \in BOOLEAN, Answer(a, hit) PROVE Twins(config') \subseteq Twins(config)
  <2>1. config' = config \/ config' = Answered(config, a, hit)
    BY <1>8 DEF Answer
  <2> QED BY <1>1, <1>2, <1>3, <2>1, AnsweredRows DEF SameScan
<1>9. ASSUME NEW r, Measure(r) PROVE Twins(config') \subseteq Twins(config)
  <2>1. r \in Rows(config) /\ config' = [config EXCEPT !.rows[r].heard = 1 - @]
    BY <1>9 DEF Measure
  <2> QED BY <1>1, <1>2, <2>1, MeasuredRow DEF SameScan
<1>10. config' = config \/ ChannelRoute \/ Volume \/ (\E t \in Tab : Put(t)) \/ (\E f \in Freq : CloseCall(f))
       \/ (\E a \in asked, hit \in BOOLEAN : Answer(a, hit)) \/ (\E r \in ToSet(Row) : Measure(r))
  BY DEF Next, vars, Read, Refuse, Repointed, Mixed, Hear, Ask, TelemetrySave, HandEdit, Boot,
         Crash, CrashInPut, Down
<1> QED BY <1>3, <1>4, <1>5, <1>6, <1>7, <1>8, <1>9, <1>10

\* The file of a running service is its document, but for what is still on its
\* way there, and when the power fails the next boot goes on from it or from
\* the edit being written; and no request puts a channel on a frequency
\* another has: for any tabs, rows, frequencies and bounds.
THEOREM DocumentTheorem == Spec => DocumentSafe
<1>1. DocInv /\ [Next]_vars =>
        /\ up => Written(config, main)
        /\ up /\ ~up' => Loaded(main', bak') \in {main} \cup Sent
  BY BootsFrom DEF DocInv, FileWritten
<1>2. DocInv /\ [Next]_vars => (up /\ up' => Twins(config') \subseteq Twins(config))
  BY NoStepTwins
<1>3. Spec => Recoverable
  BY <1>1, DocAlways, PTL DEF Spec, Recoverable
<1>4. Spec => NoNewTwin
  BY <1>2, DocAlways, PTL DEF Spec, NoNewTwin
<1> QED BY <1>3, <1>4 DEF DocumentSafe

-----------------------------------------------------------------------------
(* Proofs about what a page shows as playing, for any windows, channels and  *)
(* bounds. The last line about the speaker names who speaks; without one,    *)
(* the hub's slot does, or nobody while a tune is under way. The last event  *)
(* that tells a page something, under way to it, says what the slot says;    *)
(* without one the page shows it, unless it knows that it has lost some.     *)

Places == Windows \cup {Weather, FirstWindow("scan"), 0}
Who == Channels \cup {None}
LineType == [ev : {"ready", "open", "close", "audible"}, ch : Who]
EventType == {Gap} \cup [type : {"none", "active", "audible", "idle", "error"} \cup StatusTypes, ch : Who, unproven : BOOLEAN]

PartTypes ==
  /\ helper \in [state : {"none", "booting", "on", "dead"}, window : Places, lanes : SUBSET Channels, speaker : Who]
  /\ lines \in Seq(LineType) /\ tunes \in Seq(Places)
  /\ engine \in [window : Places, open : SUBSET Channels, failed : BOOLEAN, unproven : BOOLEAN,
                 proving : BOOLEAN, up : BOOLEAN]
HubTypes(h) == h \in [slot : EventType, seen : BOOLEAN] /\ h.slot.type \in {"none", "active", "audible"}
PageParts == {"kind", "link", "inbox", "behind", "nowPlaying", "audibleDriven", "error", "state"}
PageTypes(p) ==
  /\ DOMAIN p = PageParts /\ p.inbox \in Seq(EventType) /\ p.link \in {"up", "down", "stuck"}
  /\ p.behind \in BOOLEAN /\ p.kind \in {"wall", "admin"}

\* The lines of the helper that runs: "ready" is the first.
Booted(ls) == \A i \in 1 .. Len(ls) : ls[i].ev # "ready"
Mute(ls) == \A i \in 1 .. Len(ls) : ls[i].ev # "audible"
Speaking(ls, c) == \E i \in 1 .. Len(ls) : /\ ls[i].ev = "audible" /\ ls[i].ch = c
                                            /\ \A j \in (i + 1) .. Len(ls) : ls[j].ev # "audible"
ReadyFirst(ls) == \A i \in 1 .. Len(ls) : ls[i].ev = "ready" => i = 1

\* Who speaks, by the hub.
Slot(h) == IF h.slot.type = "audible" THEN h.slot.ch ELSE None
SlotRight(h) == (h.slot.type = "audible" => h.seen /\ h.slot.ch # None) /\ (h.seen => h.slot.type # "active")

HelperRight ==
  /\ \A c \in helper.lanes : WindowOf[c] = helper.window
  /\ helper.speaker # None => WindowOf[helper.speaker] = helper.window
  /\ helper.state # "on" => helper.speaker = None
  /\ helper.state \in {"none", "booting"} => lines = <<>>
  /\ ReadyFirst(lines)

\* The last tune is to where the engine is.
TunesFollow ==
  /\ tunes # <<>> => tunes[Len(tunes)] = engine.window
  /\ helper.state = "on" /\ tunes = <<>> /\ Booted(lines) => helper.window = engine.window

\* The lines and the slot lead to the speaker.
LinesLead ==
  helper.state = "on" =>
    /\ \A c \in Who : Speaking(lines, c) => c = helper.speaker
    /\ Mute(lines) /\ Booted(lines) /\ hub.seen /\ ~engine.unproven =>
         /\ Slot(hub) \in {None, helper.speaker}
         /\ tunes = <<>> => Slot(hub) = helper.speaker

\* A helper that has yet to be heard of is new after a status, or not proven.
NewUnproven ==
  helper.state \in {"none", "booting"} \/ (helper.state = "on" /\ ~Booted(lines)) => ~hub.seen \/ engine.unproven

\* The last event under way that tells the whole.
LastTold(es, i) == Told(es[i]) /\ \A j \in (i + 1) .. Len(es) : ~Told(es[j]) /\ es[j].type # "gap"
NoneTold(es) == \A j \in 1 .. Len(es) : ~Told(es[j]) /\ es[j].type # "gap"
Tells(e, h) == IF e.type = "audible" THEN h.seen /\ Slot(h) = e.ch ELSE ~h.seen
Shown(p, h) == h.seen => IF p.audibleDriven THEN p.nowPlaying = Slot(h) ELSE Slot(h) = None
PageRight(p, h) ==
  /\ p.link = "down" => p.behind /\ p.inbox = <<>>
  /\ \A i \in 1 .. Len(p.inbox) : LastTold(p.inbox, i) => Tells(p.inbox[i], h)
  /\ NoneTold(p.inbox) /\ ~p.behind => Shown(p, h)

\* The inductive invariant: what the engine and the helper make of it, and what the hub and the page do.
Radio == PartTypes /\ HelperRight /\ TunesFollow /\ LinesLead /\ NewUnproven
Hubs == HubTypes(hub) /\ SlotRight(hub) /\ PageTypes(page) /\ PageRight(page, hub)

\* A channel that may speak opens while another does, or its opening is followed by a line about
\* the speaker.
Loud(c) == c \notin Silent /\ c # None
OpensSpoken(ls, speaker) ==
  \A i \in 1 .. Len(ls) : ls[i].ev = "open" /\ ls[i].ch \notin Silent =>
    speaker # None \/ \E j \in (i + 1) .. Len(ls) : ls[j].ev = "audible"

\* A page that has been told nothing shows, or is about to, a channel that may speak: a line about
\* the speaker is then under way.
NamesLoud(es) == \E i \in 1 .. Len(es) : es[i].type = "active" /\ Loud(es[i].ch)
NothingTold(p) == ~p.behind /\ ~p.audibleDriven /\ NoneTold(p.inbox)
ShowsLoud(p) == NothingTold(p) /\ (Loud(p.nowPlaying) \/ NamesLoud(p.inbox))
SpeakerDue == ~Mute(lines) \/ (tunes # <<>> /\ helper.speaker # None)
Speech ==
  helper.state = "on" =>
    /\ OpensSpoken(lines, helper.speaker)
    /\ hub.seen /\ ~engine.unproven /\ ShowsLoud(page) => SpeakerDue

-----------------------------------------------------------------------------
(* Sequences of lines and events. *)

LEMMA LinesAppend ==
  ASSUME NEW ls \in Seq(LineType), NEW l \in LineType
  PROVE  LET q == Append(ls, l)
         IN  /\ q \in Seq(LineType) /\ q # <<>>
             /\ Booted(q) <=> Booted(ls) /\ l.ev # "ready"
             /\ Mute(q) <=> Mute(ls) /\ l.ev # "audible"
             /\ l.ev = "audible" => \A c : Speaking(q, c) => c = l.ch
             /\ l.ev # "audible" => \A c : Speaking(q, c) => Speaking(ls, c)
             /\ ReadyFirst(ls) /\ (l.ev = "ready" => ls = <<>>) => ReadyFirst(q)
<1> DEFINE q == Append(ls, l)
<1>1. /\ q \in Seq(LineType) /\ Len(q) = Len(ls) + 1 /\ q[Len(ls) + 1] = l /\ Len(ls) \in Nat
      /\ \A i \in 1 .. Len(ls) : q[i] = ls[i]
  OBVIOUS
<1>2. q # <<>>
  <2>1. Len(<<>>) = 0
    OBVIOUS
  <2> QED BY <1>1, <2>1
<1>e. ls = <<>> => Len(ls) = 0
  OBVIOUS
<1> HIDE DEF q
<1>3. Booted(q) <=> Booted(ls) /\ l.ev # "ready"
  BY <1>1 DEF Booted
<1>4. Mute(q) <=> Mute(ls) /\ l.ev # "audible"
  BY <1>1 DEF Mute
<1>5. ASSUME l.ev = "audible", NEW c, Speaking(q, c) PROVE c = l.ch
  <2>1. PICK i \in 1 .. Len(q) : q[i].ev = "audible" /\ q[i].ch = c /\ \A j \in (i + 1) .. Len(q) : q[j].ev # "audible"
    BY <1>5 DEF Speaking
  <2>2. i = Len(q)
    BY <1>1, <1>5, <2>1
  <2> QED BY <1>1, <2>1, <2>2
<1>6. ASSUME l.ev # "audible", NEW c, Speaking(q, c) PROVE Speaking(ls, c)
  <2>1. PICK i \in 1 .. Len(q) : q[i].ev = "audible" /\ q[i].ch = c /\ \A j \in (i + 1) .. Len(q) : q[j].ev # "audible"
    BY <1>6 DEF Speaking
  <2>2. i \in 1 .. Len(ls)
    BY <1>1, <1>6, <2>1
  <2>3. \A j \in (i + 1) .. Len(ls) : ls[j].ev # "audible"
    BY <1>1, <2>1, <2>2
  <2> QED BY <1>1, <2>1, <2>2, <2>3 DEF Speaking
<1>7. ReadyFirst(ls) /\ (l.ev = "ready" => ls = <<>>) => ReadyFirst(q)
  BY <1>1, <1>e DEF ReadyFirst
<1> QED BY <1>1, <1>2, <1>3, <1>4, <1>5, <1>6, <1>7 DEF q

LEMMA LinesTail ==
  ASSUME NEW ls \in Seq(LineType), ls # <<>>
  PROVE  LET q == Tail(ls)
             l == Head(ls)
         IN  /\ q \in Seq(LineType) /\ l \in LineType
             /\ Booted(ls) => Booted(q) /\ l.ev # "ready"
             /\ ReadyFirst(ls) => Booted(q) /\ (l.ev # "ready" => Booted(ls))
             /\ Mute(ls) <=> Mute(q) /\ l.ev # "audible"
             /\ \A c : Speaking(q, c) => Speaking(ls, c)
             /\ Mute(q) /\ l.ev = "audible" => Speaking(ls, l.ch)
<1> DEFINE q == Tail(ls)
<1> DEFINE l == Head(ls)
<1>1. /\ q \in Seq(LineType) /\ l \in LineType /\ Len(ls) \in Nat \ {0} /\ Len(q) = Len(ls) - 1 /\ ls[1] = l
      /\ \A i \in 1 .. Len(q) : q[i] = ls[i + 1]
  OBVIOUS
<1> HIDE DEF q, l
<1>2. \A i \in 2 .. Len(ls) : ls[i] = q[i - 1]
  <2> TAKE i \in 2 .. Len(ls)
  <2>1. i - 1 \in 1 .. Len(q) /\ (i - 1) + 1 = i
    BY <1>1
  <2> QED BY <1>1, <2>1
<1>3. Booted(ls) => Booted(q) /\ l.ev # "ready"
  BY <1>1 DEF Booted
<1>4. ReadyFirst(ls) => Booted(q) /\ (l.ev # "ready" => Booted(ls))
  <2> SUFFICES ASSUME ReadyFirst(ls) PROVE Booted(q) /\ (l.ev # "ready" => Booted(ls))
    OBVIOUS
  <2>1. \A i \in 1 .. Len(q) : q[i].ev # "ready"
    BY <1>1 DEF ReadyFirst
  <2>2. l.ev # "ready" => \A i \in 1 .. Len(ls) : ls[i].ev # "ready"
    BY <1>1 DEF ReadyFirst
  <2> QED BY <2>1, <2>2 DEF Booted
<1>5. Mute(ls) <=> Mute(q) /\ l.ev # "audible"
  <2>1. Mute(ls) => Mute(q) /\ l.ev # "audible"
    BY <1>1 DEF Mute
  <2>2. ASSUME Mute(q), l.ev # "audible", NEW i \in 1 .. Len(ls) PROVE ls[i].ev # "audible"
    <3>1. CASE i = 1
      BY <1>1, <2>2, <3>1
    <3>2. CASE i # 1
      <4>1. i \in 2 .. Len(ls) /\ i - 1 \in 1 .. Len(q)
        BY <1>1, <3>2
      <4> QED BY <1>2, <2>2, <4>1 DEF Mute
    <3> QED BY <3>1, <3>2
  <2> QED BY <2>1, <2>2 DEF Mute
<1>6. ASSUME NEW c, Speaking(q, c) PROVE Speaking(ls, c)
  <2>1. PICK i \in 1 .. Len(q) : q[i].ev = "audible" /\ q[i].ch = c /\ \A j \in (i + 1) .. Len(q) : q[j].ev # "audible"
    BY <1>6 DEF Speaking
  <2>2. i + 1 \in 1 .. Len(ls) /\ ls[i + 1] = q[i]
    BY <1>1
  <2>3. ASSUME NEW j \in (i + 1 + 1) .. Len(ls) PROVE ls[j].ev # "audible"
    <3>1. j \in 2 .. Len(ls) /\ j - 1 \in (i + 1) .. Len(q)
      BY <1>1
    <3> QED BY <1>2, <2>1, <3>1
  <2> QED BY <2>1, <2>2, <2>3 DEF Speaking
<1>7. ASSUME Mute(q), l.ev = "audible" PROVE Speaking(ls, l.ch)
  <2>1. ASSUME NEW j \in (1 + 1) .. Len(ls) PROVE ls[j].ev # "audible"
    <3>1. j \in 2 .. Len(ls) /\ j - 1 \in 1 .. Len(q)
      BY <1>1
    <3> QED BY <1>2, <1>7, <3>1 DEF Mute
  <2>2. 1 \in 1 .. Len(ls) /\ ls[1].ev = "audible" /\ ls[1].ch = l.ch
    BY <1>1, <1>7
  <2> QED BY <2>1, <2>2 DEF Speaking
<1> QED BY <1>1, <1>3, <1>4, <1>5, <1>6, <1>7 DEF q, l

-----------------------------------------------------------------------------
(* The hub and the page. *)

LEMMA TellingTypes ==
  /\ \A e : Told(e) => e.type \in StatusTypes \cup {"audible"}
  /\ \A e \in EventType : e.type = "gap" => e = Gap
  /\ Gap \in EventType /\ ~Told(Gap) /\ Gap.type = "gap" /\ NoEvent \in EventType
  /\ \A es : es = <<>> => NoneTold(es) /\ Len(es) = 0
<1>1. \A es : es = <<>> => Len(es) = 0
  OBVIOUS
<1> QED BY <1>1 DEF Told, StatusTypes, Gap, NoEvent, Event, EventType, Who, NoneTold

LEMMA ReleasesFree ==
  ASSUME NEW h, HubTypes(h), NEW gone
  PROVE  LET f == Freed(h, gone)
         IN  HubTypes(f) /\ f.seen = h.seen /\ (h.seen => f = h) /\ (SlotRight(h) => SlotRight(f)) /\ Slot(f) = Slot(h)
<1>1. CASE ~h.seen /\ h.slot.type = "active" /\ h.slot.ch \in gone
  <2>1. Freed(h, gone) = [h EXCEPT !.slot = NoEvent]
    BY <1>1 DEF Freed
  <2> DEFINE f == [h EXCEPT !.slot = NoEvent]
  <2>2. f.slot = NoEvent /\ f.seen = h.seen /\ f \in [slot : EventType, seen : BOOLEAN]
    BY TellingTypes DEF HubTypes
  <2>3. NoEvent.type = "none" /\ h.seen \in BOOLEAN
    BY DEF NoEvent, Event, HubTypes
  <2> HIDE DEF f
  <2>4. HubTypes(f) /\ SlotRight(f) /\ Slot(f) = None /\ Slot(h) = None /\ ~f.seen
    BY <1>1, <2>2, <2>3 DEF HubTypes, SlotRight, Slot
  <2>5. Freed(h, gone) = f
    BY <2>1 DEF f
  <2> QED BY <1>1, <2>2, <2>4, <2>5
<1>2. CASE ~(~h.seen /\ h.slot.type = "active" /\ h.slot.ch \in gone)
  <2>1. Freed(h, gone) = h
    BY <1>2 DEF Freed
  <2> QED BY <2>1
<1> QED BY <1>1, <1>2

\* broadcast(): what tells is what the slot then says; what does not leaves a slot that audible events own.
LEMMA HubNotes ==
  ASSUME NEW h, HubTypes(h), SlotRight(h), NEW e \in EventType, e.type \notin {"none", "gap"}
  PROVE  LET n == Noted(h, e)
         IN  /\ HubTypes(n) /\ SlotRight(n)
             /\ IF Told(e) THEN Tells(e, n) ELSE n.seen = h.seen /\ (h.seen => n = h)
<1> DEFINE n == Noted(h, e)
<1>1. CASE e.type = "audible"
  <2>0. Told(e)
    BY <1>1 DEF Told
  <2>1. n = [slot |-> IF e.ch = None THEN NoEvent ELSE e, seen |-> TRUE]
    BY <1>1 DEF Noted, StatusTypes
  <2> HIDE DEF n
  <2>2. n.seen = TRUE /\ n.slot = (IF e.ch = None THEN NoEvent ELSE e)
    BY <2>1
  <2>3. CASE e.ch = None
    <3>1. n.slot = NoEvent /\ NoEvent.type = "none"
      BY <2>2, <2>3 DEF NoEvent, Event
    <3> QED BY <1>1, <2>0, <2>1, <2>2, <2>3, <3>1, TellingTypes DEF HubTypes, SlotRight, Slot, Tells, n
  <2>4. CASE e.ch # None
    BY <1>1, <2>0, <2>1, <2>2, <2>4 DEF HubTypes, SlotRight, Slot, Tells, n
  <2> QED BY <2>3, <2>4
<1>2. CASE e.type \in StatusTypes
  <2>1. n = [slot |-> NoEvent, seen |-> FALSE] /\ Told(e) /\ e.type # "audible"
    BY <1>2 DEF Noted, Told, StatusTypes
  <2> QED BY <2>1, TellingTypes DEF HubTypes, SlotRight, Tells, NoEvent, Event
<1>3. CASE e.type = "active" /\ ~h.seen
  <2>1. n = [h EXCEPT !.slot = e] /\ ~Told(e)
    BY <1>3 DEF Noted, Told, StatusTypes
  <2> QED BY <1>3, <2>1 DEF HubTypes, SlotRight
<1>4. CASE e.type = "idle" /\ ~h.seen
  <2>1. n = [h EXCEPT !.slot = NoEvent] /\ ~Told(e)
    BY <1>4 DEF Noted, Told, StatusTypes
  <2>2. n.slot = NoEvent /\ n.seen = h.seen /\ n \in [slot : EventType, seen : BOOLEAN] /\ NoEvent.type = "none"
    BY <2>1, TellingTypes DEF HubTypes, NoEvent, Event
  <2> HIDE DEF n
  <2> QED BY <1>4, <2>1, <2>2 DEF HubTypes, SlotRight, n
<1>5. CASE e.type \notin StatusTypes \cup {"audible"} /\ ~(e.type = "active" /\ ~h.seen) /\ ~(e.type = "idle" /\ ~h.seen)
  <2>1. n = h /\ ~Told(e)
    BY <1>5 DEF Noted, Told
  <2> QED BY <2>1
<1> QED BY <1>1, <1>2, <1>3, <1>4, <1>5

\* What goes out to the page keeps it right, if the last of it tells what the hub says now, or it
\* tells nothing and the hub says what it said.
LEMMA PageSent ==
  ASSUME NEW p, PageTypes(p), NEW h, NEW n, PageRight(p, h), HubTypes(h), HubTypes(n),
         NEW es \in Seq(EventType), \A i \in 1 .. Len(es) : es[i].type # "gap",
         \/ es # <<>> /\ LastTold(es, Len(es)) /\ Tells(es[Len(es)], n)
         \/ NoneTold(es) /\ n.seen = h.seen /\ (h.seen => Slot(n) = Slot(h))
  PROVE  PageTypes(SentOut(p, es)) /\ PageRight(SentOut(p, es), n)
<1> DEFINE q == SentOut(p, es)
<1>0. p.inbox \in Seq(EventType) /\ Len(p.inbox) \in Nat /\ Len(es) \in Nat /\ (es # <<>> => Len(es) > 0)
  BY DEF PageTypes
<1>1. CASE p.link = "up"
  <2>1. q = [p EXCEPT !.inbox = @ \o es]
    BY <1>1 DEF SentOut
  <2> DEFINE b == p.inbox \o es
  <2>2. /\ b \in Seq(EventType) /\ Len(b) = Len(p.inbox) + Len(es)
        /\ \A i \in 1 .. Len(p.inbox) : b[i] = p.inbox[i]
        /\ \A i \in 1 .. Len(es) : b[Len(p.inbox) + i] = es[i]
    BY SMTT(60), <1>0
  <2> HIDE DEF b
  <2>3. q.inbox = b /\ q.link = p.link /\ q.behind = p.behind /\ q.audibleDriven = p.audibleDriven
        /\ q.nowPlaying = p.nowPlaying /\ q.kind = p.kind /\ DOMAIN q = DOMAIN p
    BY <2>1 DEF PageTypes, PageParts, b
  <2> HIDE DEF q
  <2>4. CASE es # <<>> /\ LastTold(es, Len(es)) /\ Tells(es[Len(es)], n)
    <3>1. b[Len(b)] = es[Len(es)] /\ Len(b) \in 1 .. Len(b)
      BY <1>0, <2>2, <2>4
    <3>2. Told(b[Len(b)])
      BY <2>4, <3>1 DEF LastTold
    <3>3. ~NoneTold(b)
      BY <3>1, <3>2 DEF NoneTold
    <3>4. ASSUME NEW i \in 1 .. Len(b), LastTold(b, i) PROVE Tells(b[i], n)
      <4>1. i = Len(b)
        BY <1>0, <2>2, <3>1, <3>2, <3>4, SMTT(30) DEF LastTold
      <4> QED BY <2>4, <3>1, <4>1
    <3>5. PageTypes(q)
      BY <2>2, <2>3 DEF PageTypes
    <3>6. PageRight(q, n)
      BY <1>1, <2>3, <3>3, <3>4 DEF PageRight
    <3> QED BY <3>5, <3>6 DEF q
  <2>5. CASE NoneTold(es) /\ n.seen = h.seen /\ (h.seen => Slot(n) = Slot(h))
    <3>1. ASSUME NEW i \in 1 .. Len(b), LastTold(b, i) PROVE Tells(b[i], n)
      <4>1. i \in 1 .. Len(p.inbox)
        <5> SUFFICES ASSUME i > Len(p.inbox) PROVE FALSE
          BY <1>0, <2>2
        <5>1. i - Len(p.inbox) \in 1 .. Len(es) /\ Len(p.inbox) + (i - Len(p.inbox)) = i
          BY <1>0, <2>2
        <5>2. b[i] = es[i - Len(p.inbox)]
          BY <2>2, <5>1
        <5> QED BY <2>5, <3>1, <5>1, <5>2 DEF NoneTold, LastTold
      <4>2. LastTold(p.inbox, i)
        <5>1. \A j \in (i + 1) .. Len(p.inbox) : j \in (i + 1) .. Len(b) /\ b[j] = p.inbox[j]
          BY <1>0, <2>2, <4>1
        <5> QED BY <2>2, <3>1, <4>1, <5>1 DEF LastTold
      <4>3. Tells(p.inbox[i], h)
        BY <4>1, <4>2 DEF PageRight
      <4> QED BY <2>2, <2>5, <4>1, <4>3 DEF Tells, HubTypes
    <3>2. NoneTold(b) => NoneTold(p.inbox)
      BY <1>0, <2>2 DEF NoneTold
    <3>3. NoneTold(b) /\ ~q.behind => Shown(q, n)
      BY <2>3, <2>5, <3>2 DEF PageRight, Shown
    <3>5. PageTypes(q)
      BY <2>2, <2>3 DEF PageTypes
    <3>6. PageRight(q, n)
      BY <1>1, <2>3, <3>1, <3>3 DEF PageRight
    <3> QED BY <3>5, <3>6 DEF q
  <2> QED BY <2>4, <2>5
<1>2. CASE p.link = "stuck" /\ (p.inbox = <<>> \/ Last(p.inbox) # Gap)
  <2>1. q = [p EXCEPT !.inbox = Append(@, Gap)]
    BY <1>2 DEF SentOut
  <2> DEFINE b == Append(p.inbox, Gap)
  <2>2. b \in Seq(EventType) /\ Len(b) = Len(p.inbox) + 1 /\ b[Len(b)] = Gap
    BY <1>0, TellingTypes
  <2> HIDE DEF b
  <2>3. q.inbox = b /\ q.link = p.link /\ q.behind = p.behind /\ DOMAIN q = DOMAIN p /\ q.kind = p.kind
    BY <2>1 DEF PageTypes, PageParts, b
  <2> HIDE DEF q
  <2>4. \A i \in 1 .. Len(b) : ~LastTold(b, i)
    <3> TAKE i \in 1 .. Len(b)
    <3>1. CASE i = Len(b)
      BY <2>2, <3>1, TellingTypes DEF LastTold
    <3>2. CASE i # Len(b)
      BY <1>0, <2>2, <3>2, TellingTypes DEF LastTold
    <3> QED BY <3>1, <3>2
  <2>5. ~NoneTold(b)
    BY <1>0, <2>2, TellingTypes DEF NoneTold
  <2>6. PageTypes(q)
    BY <2>2, <2>3 DEF PageTypes
  <2>7. PageRight(q, n)
    BY <1>2, <2>3, <2>4, <2>5 DEF PageRight
  <2> QED BY <2>6, <2>7 DEF q
<1>3. CASE p.link = "stuck" /\ ~(p.inbox = <<>> \/ Last(p.inbox) # Gap)
  <2>1. q = p
    BY <1>3 DEF SentOut
  <2>2. Len(p.inbox) > 0 /\ p.inbox[Len(p.inbox)] = Gap
    BY <1>0, <1>3 DEF Last
  <2>3. \A i \in 1 .. Len(p.inbox) : ~LastTold(p.inbox, i)
    <3> TAKE i \in 1 .. Len(p.inbox)
    <3>1. CASE i = Len(p.inbox)
      BY <2>2, <3>1, TellingTypes DEF LastTold
    <3>2. CASE i # Len(p.inbox)
      BY <1>0, <2>2, <3>2, TellingTypes DEF LastTold
    <3> QED BY <3>1, <3>2
  <2>4. ~NoneTold(p.inbox)
    BY <1>0, <2>2, TellingTypes DEF NoneTold
  <2> QED BY <1>3, <2>1, <2>3, <2>4 DEF PageRight
<1>4. CASE p.link = "down"
  <2>1. q = p
    BY <1>4 DEF SentOut
  <2>2. p.behind /\ p.inbox = <<>> /\ Len(<<>>) = 0
    BY <1>4 DEF PageRight
  <2>3. \A i \in 1 .. Len(p.inbox) : FALSE
    BY <2>2
  <2> QED BY <2>1, <2>2, <2>3 DEF PageRight
<1> QED BY <1>1, <1>2, <1>3, <1>4 DEF PageTypes

\* One event, and the three statuses of a restart: the slot takes them one after the other.
LEMMA OneEvent ==
  ASSUME NEW gone, NEW e, Broadcast(gone, <<e>>)
  PROVE  hub' = Noted(Freed(hub, gone), e) /\ page' = SentOut(page, <<e>>)
<1> DEFINE es == <<e>>
           Rec(g) == g = [n \in 0 .. Len(es) |-> IF n = 0 THEN Freed(hub, gone) ELSE Noted(g[n - 1], es[n])]
           slots == CHOOSE g : Rec(g)
           g1 == [n \in 0 .. 1 |-> IF n = 0 THEN Freed(hub, gone) ELSE Noted(Freed(hub, gone), e)]
<1>1. Len(es) = 1 /\ es[1] = e /\ es # <<>>
  OBVIOUS
<1>2. Rec(g1)
  <2>1. \A n \in 0 .. 1 : g1[n] = IF n = 0 THEN Freed(hub, gone) ELSE Noted(g1[n - 1], es[n])
    <3>1. g1[0] = Freed(hub, gone) /\ g1[1] = Noted(Freed(hub, gone), e) /\ 1 - 1 = 0
      OBVIOUS
    <3> HIDE DEF g1
    <3>2. \A n \in 0 .. 1 : n = 0 \/ n = 1
      OBVIOUS
    <3> QED BY <1>1, <3>1, <3>2
  <2>2. g1 = [n \in 0 .. 1 |-> g1[n]]
    OBVIOUS
  <2> HIDE DEF g1, es
  <2> QED BY <1>1, <2>1, <2>2
<1>3. Rec(slots)
  <2> HIDE DEF Rec, g1
  <2> QED BY <1>2
<1>4. hub' = slots[Len(es)] /\ page' = SentOut(page, es)
  BY <1>1 DEF Broadcast
<1> HIDE DEF slots, es
<1>5. slots[0] = Freed(hub, gone) /\ slots[1] = Noted(slots[1 - 1], es[1]) /\ 1 - 1 = 0
  BY <1>1, <1>3
<1> QED BY <1>1, <1>4, <1>5 DEF es

LEMMA ThreeEvents ==
  ASSUME NEW a, NEW b, NEW c, Broadcast({}, <<a, b, c>>)
  PROVE  hub' = Noted(Noted(Noted(Freed(hub, {}), a), b), c) /\ page' = SentOut(page, <<a, b, c>>)
<1> DEFINE es == <<a, b, c>>
           Rec(g) == g = [n \in 0 .. Len(es) |-> IF n = 0 THEN Freed(hub, {}) ELSE Noted(g[n - 1], es[n])]
           slots == CHOOSE g : Rec(g)
           h0 == Freed(hub, {})
           h1 == Noted(h0, a)
           h2 == Noted(h1, b)
           h3 == Noted(h2, c)
           g1 == [n \in 0 .. 3 |-> IF n = 0 THEN h0 ELSE IF n = 1 THEN h1 ELSE IF n = 2 THEN h2 ELSE h3]
<1>1. Len(es) = 3 /\ es[1] = a /\ es[2] = b /\ es[3] = c /\ es # <<>>
  OBVIOUS
<1>2. Rec(g1)
  <2>1. \A n \in 0 .. 3 : g1[n] = IF n = 0 THEN Freed(hub, {}) ELSE Noted(g1[n - 1], es[n])
    <3>0. h0 = Freed(hub, {}) /\ h1 = Noted(h0, a) /\ h2 = Noted(h1, b) /\ h3 = Noted(h2, c)
      OBVIOUS
    <3> HIDE DEF h0, h1, h2, h3, es
    <3>1. g1[0] = h0 /\ g1[1] = h1 /\ g1[2] = h2 /\ g1[3] = h3
      OBVIOUS
    <3> HIDE DEF g1
    <3>2. 1 - 1 = 0 /\ 2 - 1 = 1 /\ 3 - 1 = 2
      OBVIOUS
    <3> TAKE n \in 0 .. 3
    <3>3. n = 0 \/ n = 1 \/ n = 2 \/ n = 3
      OBVIOUS
    <3>4. CASE n = 0  BY <3>0, <3>1, <3>4
    <3>5. CASE n = 1  BY <1>1, <3>0, <3>1, <3>2, <3>5
    <3>6. CASE n = 2  BY <1>1, <3>0, <3>1, <3>2, <3>6
    <3>7. CASE n = 3  BY <1>1, <3>0, <3>1, <3>2, <3>7
    <3> QED BY <3>3, <3>4, <3>5, <3>6, <3>7
  <2> HIDE DEF h0, h1, h2, h3, es
  <2>2. g1 = [n \in 0 .. 3 |-> g1[n]]
    OBVIOUS
  <2> HIDE DEF g1
  <2> QED BY <1>1, <2>1, <2>2
<1>3. Rec(slots)
  <2> HIDE DEF Rec, g1
  <2> QED BY <1>2
<1>4. hub' = slots[Len(es)] /\ page' = SentOut(page, es)
  BY <1>1 DEF Broadcast
<1> HIDE DEF slots, es
<1>5. /\ slots[0] = Freed(hub, {}) /\ slots[1] = Noted(slots[1 - 1], es[1])
      /\ slots[2] = Noted(slots[2 - 1], es[2]) /\ slots[3] = Noted(slots[3 - 1], es[3])
  BY <1>1, <1>3
<1>6. 1 - 1 = 0 /\ 2 - 1 = 1 /\ 3 - 1 = 2
  OBVIOUS
<1> QED BY <1>1, <1>4, <1>5, <1>6 DEF es

\* Releases alone.
LEMMA NoEvents ==
  ASSUME NEW gone, Broadcast(gone, <<>>)
  PROVE  hub' = Freed(hub, gone) /\ page' = IF gone = {} THEN page ELSE SentOut(page, <<>>)
<1> DEFINE es == <<>>
           Rec(g) == g = [n \in 0 .. Len(es) |-> IF n = 0 THEN Freed(hub, gone) ELSE Noted(g[n - 1], es[n])]
           slots == CHOOSE g : Rec(g)
           g1 == [n \in 0 .. 0 |-> Freed(hub, gone)]
<1>1. Len(es) = 0
  OBVIOUS
<1>4. hub' = slots[Len(es)] /\ page' = IF gone = {} THEN page ELSE SentOut(page, es)
  BY DEF Broadcast
<1> HIDE DEF es
<1>2. Rec(g1)
  <2>1. \A n \in 0 .. 0 : g1[n] = IF n = 0 THEN Freed(hub, gone) ELSE Noted(g1[n - 1], es[n])
    OBVIOUS
  <2>2. g1 = [n \in 0 .. 0 |-> g1[n]]
    OBVIOUS
  <2> HIDE DEF g1
  <2> QED BY <1>1, <2>1, <2>2
<1>3. Rec(slots)
  <2> HIDE DEF Rec, g1
  <2> QED BY <1>2
<1> HIDE DEF slots
<1>5. slots[0] = Freed(hub, gone)
  BY <1>1, <1>3
<1> QED BY <1>1, <1>4, <1>5 DEF es

\* An event goes out.
LEMMA EventKeeps ==
  ASSUME Hubs, NEW gone, NEW e \in EventType, e.type \notin {"none", "gap"}, Broadcast(gone, <<e>>)
  PROVE  /\ Hubs'
         /\ IF Told(e) THEN Tells(e, hub') ELSE hub'.seen = hub.seen /\ (hub.seen => Slot(hub') = Slot(hub))
<1> DEFINE f == Freed(hub, gone)
<1>1. HubTypes(f) /\ f.seen = hub.seen /\ (hub.seen => f = hub) /\ SlotRight(f)
  BY ReleasesFree DEF Hubs
<1>2. hub' = Noted(f, e) /\ page' = SentOut(page, <<e>>)
  BY OneEvent
<1> HIDE DEF f
<1>3. /\ HubTypes(hub') /\ SlotRight(hub')
      /\ IF Told(e) THEN Tells(e, hub') ELSE hub'.seen = f.seen /\ (f.seen => hub' = f)
  BY <1>1, <1>2, HubNotes
<1>4. <<e>> \in Seq(EventType) /\ Len(<<e>>) = 1 /\ <<e>>[1] = e /\ <<e>> # <<>>
  OBVIOUS
<1>5. Told(e) => LastTold(<<e>>, Len(<<e>>)) /\ Tells(<<e>>[Len(<<e>>)], hub')
  BY <1>3, <1>4 DEF LastTold
<1>6. ~Told(e) => NoneTold(<<e>>) /\ hub'.seen = hub.seen /\ (hub.seen => Slot(hub') = Slot(hub))
  BY <1>1, <1>3, <1>4 DEF NoneTold
<1>7. PageTypes(page') /\ PageRight(page', hub')
  BY <1>2, <1>3, <1>4, <1>5, <1>6, PageSent, SMTT(30) DEF Hubs
<1> QED BY <1>3, <1>6, <1>7 DEF Hubs

\* A hop's releases, with the idle that ends them.
LEMMA HopKeeps ==
  ASSUME Hubs, NEW gone, NEW b \in BOOLEAN, NEW es, Broadcast(gone, es), es = <<>> \/ es = <<Event("idle", None, b)>>
  PROVE  Hubs' /\ hub'.seen = hub.seen /\ (hub.seen => Slot(hub') = Slot(hub))
<1>1. CASE es = <<Event("idle", None, b)>>
  <2> DEFINE e == Event("idle", None, b)
  <2>1. e \in EventType /\ e.type \notin {"none", "gap"} /\ ~Told(e)
    BY DEF Event, EventType, Who, Told, StatusTypes
  <2> HIDE DEF e
  <2>2. Broadcast(gone, <<e>>)
    BY <1>1 DEF e
  <2> QED BY <2>1, <2>2, EventKeeps
<1>2. CASE es = <<>>
  <2>1. hub' = Freed(hub, gone) /\ page' = IF gone = {} THEN page ELSE SentOut(page, <<>>)
    BY <1>2, NoEvents
  <2>2. HubTypes(hub') /\ SlotRight(hub') /\ hub'.seen = hub.seen /\ Slot(hub') = Slot(hub)
    BY <2>1, ReleasesFree DEF Hubs
  <2>3. PageTypes(page') /\ PageRight(page', hub')
    <3>1. CASE gone # {}
      <4>1. <<>> \in Seq(EventType) /\ Len(<<>>) = 0 /\ NoneTold(<<>>)
        BY TellingTypes
      <4>2. \A i \in 1 .. Len(<<>>) : <<>>[i].type # "gap"
        BY <4>1
      <4> QED BY <2>1, <2>2, <3>1, <4>1, <4>2, PageSent DEF Hubs
    <3>2. CASE gone = {}
      <4>1. page' = page
        BY <2>1, <3>2
      <4> QED BY <2>2, <4>1 DEF Hubs, PageRight, Tells, Shown
    <3> QED BY <3>1, <3>2
  <2> QED BY <2>2, <2>3 DEF Hubs
<1> QED BY <1>1, <1>2

\* A helper started over.
LEMMA StatusesKeep ==
  ASSUME Hubs, Broadcast({}, <<Status("stopped"), Status("starting"), Status("running")>>)
  PROVE  Hubs' /\ hub'.seen = FALSE
<1> DEFINE a == Status("stopped")
           b == Status("starting")
           c == Status("running")
           es == <<a, b, c>>
           f == Freed(hub, {})
<1>1. /\ {a, b, c} \subseteq EventType /\ \A e \in {a, b, c} : e.type \in StatusTypes /\ Told(e)
      /\ \A e \in {a, b, c} : e.type \notin {"none", "gap", "audible"}
  BY DEF Status, Event, EventType, Who, Told, StatusTypes
<1>2. HubTypes(f) /\ SlotRight(f)
  BY ReleasesFree DEF Hubs
<1>0. Broadcast({}, <<a, b, c>>)
  OBVIOUS
<1> HIDE DEF a, b, c, f
<1>3. hub' = Noted(Noted(Noted(f, a), b), c) /\ page' = SentOut(page, es)
  BY <1>0, ThreeEvents DEF f
<1>4. HubTypes(Noted(f, a)) /\ SlotRight(Noted(f, a))
  BY <1>1, <1>2, HubNotes
<1>5. HubTypes(Noted(Noted(f, a), b)) /\ SlotRight(Noted(Noted(f, a), b))
  BY <1>1, <1>4, HubNotes
<1>6. HubTypes(hub') /\ SlotRight(hub') /\ Tells(c, hub')
  <2> DEFINE g == Noted(Noted(f, a), b)
  <2>1. HubTypes(g) /\ SlotRight(g) /\ hub' = Noted(g, c)
    BY <1>3, <1>5
  <2> HIDE DEF g
  <2> QED BY <1>1, <2>1, HubNotes
<1>7. hub'.seen = FALSE
  BY <1>1, <1>6 DEF Tells, HubTypes
<1>8. es \in Seq(EventType) /\ Len(es) = 3 /\ es[1] = a /\ es[2] = b /\ es[3] = c /\ es # <<>>
  BY <1>1
<1> HIDE DEF es
<1>9. LastTold(es, Len(es)) /\ Tells(es[Len(es)], hub')
  BY <1>1, <1>6, <1>8 DEF LastTold
<1>10. \A i \in 1 .. Len(es) : es[i].type # "gap"
  BY <1>1, <1>8
<1>11. PageTypes(page') /\ PageRight(page', hub')
  BY <1>3, <1>6, <1>8, <1>9, <1>10, PageSent DEF Hubs
<1> QED BY <1>6, <1>7, <1>11 DEF Hubs

-----------------------------------------------------------------------------
(* The steps. *)

\* The hub says of the speaker what it said, if it said it by audible events.
SaysSame == hub'.seen = hub.seen /\ (hub.seen => Slot(hub') = Slot(hub))

LEMMA TailEvents ==
  ASSUME NEW es \in Seq(EventType), es # <<>>
  PROVE  /\ Tail(es) \in Seq(EventType) /\ Head(es) \in EventType
         /\ \A i \in 1 .. Len(Tail(es)) : i + 1 \in 1 .. Len(es) /\ Tail(es)[i] = es[i + 1] /\ (LastTold(Tail(es), i) => LastTold(es, i + 1))
         /\ NoneTold(Tail(es)) => IF Told(Head(es)) THEN LastTold(es, 1) ELSE Head(es).type = "gap" \/ NoneTold(es)
         /\ 1 \in 1 .. Len(es) /\ es[1] = Head(es)
<1> DEFINE q == Tail(es)
<1>1. /\ q \in Seq(EventType) /\ Head(es) \in EventType /\ Len(es) \in Nat \ {0} /\ Len(q) = Len(es) - 1 /\ es[1] = Head(es)
      /\ \A i \in 1 .. Len(q) : q[i] = es[i + 1]
  OBVIOUS
<1> HIDE DEF q
<1>2. \A i \in 2 .. Len(es) : i - 1 \in 1 .. Len(q) /\ es[i] = q[i - 1]
  <2> TAKE i \in 2 .. Len(es)
  <2>1. i - 1 \in 1 .. Len(q) /\ (i - 1) + 1 = i
    BY <1>1
  <2> QED BY <1>1, <2>1
<1>3. ASSUME NEW i \in 1 .. Len(q), LastTold(q, i) PROVE LastTold(es, i + 1)
  <2>1. Told(es[i + 1])
    BY <1>1, <1>3 DEF LastTold
  <2>2. ASSUME NEW j \in (i + 1 + 1) .. Len(es) PROVE ~Told(es[j]) /\ es[j].type # "gap"
    <3>1. j \in 2 .. Len(es) /\ j - 1 \in (i + 1) .. Len(q)
      BY <1>1
    <3> QED BY <1>2, <1>3, <3>1 DEF LastTold
  <2> QED BY <2>1, <2>2 DEF LastTold
<1>4. ASSUME NoneTold(q) PROVE IF Told(Head(es)) THEN LastTold(es, 1) ELSE Head(es).type = "gap" \/ NoneTold(es)
  <2>1. \A j \in 2 .. Len(es) : ~Told(es[j]) /\ es[j].type # "gap"
    BY <1>2, <1>4 DEF NoneTold
  <2>2. CASE Told(Head(es))
    <3>1. \A j \in (1 + 1) .. Len(es) : ~Told(es[j]) /\ es[j].type # "gap"
      BY <2>1
    <3> QED BY <1>1, <2>2, <3>1 DEF LastTold
  <2>3. CASE ~Told(Head(es))
    <3>1. \A j \in 1 .. Len(es) : j = 1 \/ j \in 2 .. Len(es)
      BY <1>1
    <3> QED BY <1>1, <2>1, <2>3, <3>1 DEF NoneTold
  <2> QED BY <2>2, <2>3
<1> QED BY <1>1, <1>3, <1>4 DEF q

LEMMA PlayingSet ==
  ASSUME NEW p, DOMAIN p = PageParts, NEW c, NEW b
  PROVE  /\ LET s == [p EXCEPT !.nowPlaying = c, !.audibleDriven = b]
            IN  /\ DOMAIN s = PageParts /\ s.inbox = p.inbox /\ s.behind = p.behind /\ s.link = p.link /\ s.kind = p.kind
                /\ s.nowPlaying = c /\ s.audibleDriven = b
         /\ LET s == [p EXCEPT !.nowPlaying = c]
            IN  /\ DOMAIN s = PageParts /\ s.inbox = p.inbox /\ s.behind = p.behind /\ s.link = p.link /\ s.kind = p.kind
                /\ s.nowPlaying = c /\ s.audibleDriven = p.audibleDriven
<1>1. /\ "nowPlaying" \in PageParts /\ "audibleDriven" \in PageParts /\ "inbox" \in PageParts
      /\ "behind" \in PageParts /\ "link" \in PageParts /\ "kind" \in PageParts
  BY DEF PageParts
<1> QED BY <1>1

\* Deliver: a page that is told the whole shows it.
LEMMA DeliverKeeps == ASSUME Hubs, Deliver PROVE Hubs'
<1> DEFINE e == Head(page.inbox)
           p == [page EXCEPT !.inbox = Tail(@), !.behind = (@ \/ e = Gap) /\ ~Told(e)]
<1>0. page.link = "up" /\ page.inbox # <<>> /\ page.inbox \in Seq(EventType) /\ hub' = hub
  BY DEF Deliver, Hubs, PageTypes
<1>b. p.behind = ((page.behind \/ e = Gap) /\ ~Told(e))
  BY DEF Hubs, PageTypes, PageParts
<1>1. /\ p.inbox = Tail(page.inbox) /\ DOMAIN p = PageParts
      /\ p.link = page.link /\ p.kind = page.kind /\ p.nowPlaying = page.nowPlaying /\ p.audibleDriven = page.audibleDriven
  BY DEF Hubs, PageTypes, PageParts
<1>2. page' = IF page.kind = "wall" THEN OnWall(p, e) ELSE OnAdmin(p, e)
  BY DEF Deliver
<1>e. e \in EventType
  BY <1>0, TailEvents
<1> HIDE DEF p, e
<1> DEFINE s == Playing(p, e)
<1>3. /\ DOMAIN s = PageParts /\ s.inbox = p.inbox /\ s.behind = p.behind /\ s.link = p.link /\ s.kind = p.kind
      /\ e.type = "audible" => s.nowPlaying = e.ch /\ s.audibleDriven = TRUE
      /\ ~Told(e) => s.audibleDriven = p.audibleDriven /\ (p.audibleDriven => s.nowPlaying = p.nowPlaying)
  <2>1. CASE e.type = "audible"
    <3>0. Told(e)
      BY <2>1 DEF Told
    <3>1. s = [p EXCEPT !.nowPlaying = e.ch, !.audibleDriven = TRUE]
      BY <2>1 DEF Playing, StatusTypes
    <3> QED BY <1>1, <2>1, <3>0, <3>1, PlayingSet
  <2>2. CASE e.type \in StatusTypes
    <3>1. e.type # "audible" /\ e.type # "active" /\ e.type # "idle" /\ Told(e)
      BY <2>2 DEF StatusTypes, Told
    <3>2. s = [p EXCEPT !.nowPlaying = None, !.audibleDriven = FALSE]
      BY <2>2, <3>1 DEF Playing
    <3> QED BY <1>1, <3>1, <3>2, PlayingSet
  <2>3. CASE e.type \in {"active", "idle"} /\ ~p.audibleDriven
    <3>2. e.type # "audible"
      BY <2>3
    <3>3. e.type = "active" => s = [p EXCEPT !.nowPlaying = e.ch]
      BY <2>3 DEF Playing, StatusTypes
    <3>4. e.type = "idle" => s = [p EXCEPT !.nowPlaying = None]
      BY <2>3 DEF Playing, StatusTypes
    <3>1. PICK c \in {e.ch, None} : s = [p EXCEPT !.nowPlaying = c]
      BY <2>3, <3>3, <3>4, Zenon
    <3> QED BY <1>1, <2>3, <3>1, <3>2, PlayingSet
  <2>5. CASE /\ e.type # "audible" /\ e.type \notin StatusTypes
             /\ ~(e.type = "active" /\ ~p.audibleDriven) /\ ~(e.type = "idle" /\ ~p.audibleDriven)
    <3>1. s = p
      BY <2>5 DEF Playing
    <3> QED BY <1>1, <2>5, <3>1
  <2> QED BY <2>1, <2>2, <2>3, <2>5
<1> HIDE DEF s
<1>4. /\ DOMAIN page' = PageParts /\ page'.inbox = p.inbox /\ page'.behind = p.behind /\ page'.link = p.link
      /\ page'.kind = p.kind /\ page'.nowPlaying = s.nowPlaying /\ page'.audibleDriven = s.audibleDriven
  <2>1. CASE page.kind = "wall"
    <3> DEFINE w == [s EXCEPT !.error = (@ \/ e.type = "error") /\ ~Lifts(e), !.state = IF e.type \in StatusTypes THEN e.type ELSE @]
    <3>1. page' = w
      BY <1>2, <2>1 DEF OnWall, s
    <3> QED BY <1>3, <3>1 DEF PageParts
  <2>2. CASE page.kind # "wall"
    BY <1>2, <1>3, <2>2 DEF OnAdmin, s
  <2> QED BY <2>1, <2>2
<1>5. PageTypes(page')
  BY <1>0, <1>1, <1>b, <1>4, TailEvents DEF Hubs, PageTypes
<1> DEFINE q == Tail(page.inbox)
<1>6. \A i \in 1 .. Len(q) : LastTold(q, i) => Tells(q[i], hub)
  BY <1>0, TailEvents DEF Hubs, PageRight
<1>7. ASSUME NoneTold(q), ~page'.behind PROVE Shown(page', hub)
  <2>1. CASE Told(e)
    <3>1. Tells(e, hub)
      BY <1>0, <1>7, <2>1, TailEvents DEF Hubs, PageRight, e
    <3>2. CASE e.type = "audible"
      BY <1>3, <1>4, <3>1, <3>2 DEF Tells, Shown
    <3>3. CASE e.type # "audible"
      BY <3>1, <3>3 DEF Tells, Shown
    <3> QED BY <3>2, <3>3
  <2>2. CASE ~Told(e)
    <3>1. e # Gap /\ ~page.behind
      BY <1>b, <1>4, <1>5, <1>7, <2>2 DEF Hubs, PageTypes
    <3>2. NoneTold(page.inbox) \/ e.type = "gap"
      BY <1>0, <1>7, <2>2, TailEvents DEF e
    <3>3. CASE NoneTold(page.inbox)
      <4>1. Shown(page, hub)
        BY <3>1, <3>3 DEF Hubs, PageRight
      <4>2. page'.audibleDriven = page.audibleDriven /\ (page.audibleDriven => page'.nowPlaying = page.nowPlaying)
        BY <1>1, <1>3, <1>4, <2>2
      <4> QED BY <4>1, <4>2, Zenon DEF Shown
    <3> QED BY <1>e, <3>1, <3>2, <3>3, TellingTypes
  <2> QED BY <2>1, <2>2
<1>8. PageRight(page', hub)
  <2>1. page'.link # "down" /\ page'.inbox = q
    BY <1>0, <1>1, <1>4
  <2> HIDE DEF q
  <2> QED BY <1>6, <1>7, <2>1 DEF PageRight
<1> QED BY <1>0, <1>5, <1>8 DEF Hubs

\* Steps that leave the helper and its lines, and what the hub says of the speaker.
LEMMA HubSame ==
  ASSUME Radio, SaysSame, UNCHANGED <<helper, lines>>, engine'.unproven = engine.unproven, tunes' = <<>> => tunes = <<>>
  PROVE  LinesLead' /\ NewUnproven'
<1>1. ASSUME helper.state = "on" PROVE LinesLead'
  <2>1. \A c \in Who : Speaking(lines, c) => c = helper.speaker
    BY <1>1 DEF Radio, LinesLead
  <2>2. ASSUME Mute(lines), Booted(lines), hub'.seen, ~engine'.unproven
        PROVE  Slot(hub') \in {None, helper.speaker} /\ (tunes' = <<>> => Slot(hub') = helper.speaker)
    <3>1. hub.seen /\ ~engine.unproven /\ Slot(hub') = Slot(hub)
      BY <2>2 DEF SaysSame
    <3> QED BY <1>1, <2>2, <3>1 DEF Radio, LinesLead
  <2> QED BY <2>1, <2>2 DEF LinesLead
<1>2. helper.state # "on" => LinesLead'
  BY DEF LinesLead
<1>3. NewUnproven'
  BY DEF Radio, NewUnproven, SaysSame
<1> QED BY <1>1, <1>2, <1>3

\* Steps of a helper that is on: it names the speaker last, or leaves it as it was.
LEMMA HelperSpeaks ==
  ASSUME Radio, UNCHANGED <<engine, hub>>, helper.state = "on", helper'.state = "on", Booted(lines') <=> Booted(lines),
         \/ ~Mute(lines') /\ \A c : Speaking(lines', c) => c = helper'.speaker
         \/ /\ Mute(lines') => Mute(lines)
            /\ \A c : Speaking(lines', c) => Speaking(lines, c)
            /\ helper'.speaker = helper.speaker
            /\ tunes' = <<>> => tunes = <<>> \/ helper.speaker = None
  PROVE  LinesLead' /\ NewUnproven'
<1>1. \A c \in Who : Speaking(lines', c) => c = helper'.speaker
  BY DEF Radio, LinesLead
<1>2. ASSUME Mute(lines'), Booted(lines'), hub'.seen, ~engine'.unproven
      PROVE  Slot(hub') \in {None, helper'.speaker} /\ (tunes' = <<>> => Slot(hub') = helper'.speaker)
  <2>1. /\ Mute(lines) /\ helper'.speaker = helper.speaker /\ (tunes' = <<>> => tunes = <<>> \/ helper.speaker = None)
        /\ Booted(lines) /\ hub.seen /\ ~engine.unproven /\ Slot(hub') = Slot(hub)
    BY <1>2
  <2>2. Slot(hub) \in {None, helper.speaker} /\ (tunes = <<>> => Slot(hub) = helper.speaker)
    BY <2>1 DEF Radio, LinesLead
  <2> QED BY <2>1, <2>2
<1>3. LinesLead'
  BY <1>1, <1>2 DEF LinesLead
<1>4. helper.state \in {"none", "booting"} \/ (helper.state = "on" /\ ~Booted(lines)) => ~hub.seen \/ engine.unproven
  BY DEF Radio, NewUnproven
<1>5. helper'.state \in {"none", "booting"} => FALSE
  OBVIOUS
<1> QED BY <1>3, <1>4, <1>5 DEF NewUnproven

LEMMA LinesEmpty ==
  /\ <<>> \in Seq(LineType) /\ <<>> \in Seq(Places) /\ Booted(<<>>) /\ Mute(<<>>) /\ ReadyFirst(<<>>) /\ \A c : ~Speaking(<<>>, c)
<1>1. Len(<<>>) = 0 /\ <<>> \in Seq(LineType) /\ <<>> \in Seq(Places)
  OBVIOUS
<1> QED BY <1>1 DEF Booted, Mute, ReadyFirst, Speaking

LEMMA LinesOn ==
  ASSUME NEW ls \in Seq(LineType), NEW a \in LineType, NEW b \in LineType
  PROVE  ls \o <<a>> = Append(ls, a) /\ ls \o <<a, b>> = Append(Append(ls, a), b) /\ ls \o <<>> = ls
OBVIOUS

LEMMA LineTypes ==
  ASSUME NEW ev \in {"ready", "open", "close", "audible"}, NEW c \in Who
  PROVE  Line(ev, c) \in LineType /\ Line(ev, c).ev = ev /\ Line(ev, c).ch = c
BY DEF Line, LineType

LEMMA OffAirTypes ==
  ASSUME NEW st \in {"none", "booting", "on", "dead"}
  PROVE  /\ OffAir(st) \in [state : {"none", "booting", "on", "dead"}, window : Places, lanes : SUBSET Channels, speaker : Who]
         /\ OffAir(st).state = st /\ OffAir(st).speaker = None /\ OffAir(st).lanes = {}
BY DEF OffAir, Places, Who

LEMMA HeldThere == HeldChannel \in Channels /\ HeldChannel # None /\ WindowOf[HeldChannel] = Weather
<1>1. \E c \in Channels \ Silent : WindowOf[c] = Weather
  BY ChannelAssumption DEF ChannelAssumption
<1>2. HeldChannel \in Channels \ Silent /\ WindowOf[HeldChannel] = Weather
  BY <1>1 DEF HeldChannel
<1> QED BY <1>2, ChannelAssumption DEF ChannelAssumption

LEMMA TunesAppend ==
  ASSUME NEW w \in Places, tunes \in Seq(Places)
  PROVE  /\ Append(tunes, w) \in Seq(Places) /\ Append(tunes, w) # <<>>
         /\ Append(tunes, w)[Len(Append(tunes, w))] = w
<1>1. /\ Append(tunes, w) \in Seq(Places) /\ Append(tunes, w)[Len(Append(tunes, w))] = w
      /\ Len(Append(tunes, w)) > 0 /\ Len(<<>>) = 0
  OBVIOUS
<1> QED BY <1>1

\* The helper says that it is ready.
LEMMA ReadySaid == ASSUME Radio, SaysReady PROVE Radio'
<1> DEFINE l == Line("ready", None)
<1>1. lines = <<>> /\ helper.state = "booting" /\ lines' = Append(<<>>, l) /\ UNCHANGED <<tunes, engine, hub>>
  BY DEF Radio, HelperRight, SaysReady
<1>2. /\ helper'.state = "on" /\ helper'.speaker = helper.speaker /\ helper'.window = helper.window /\ helper'.lanes = helper.lanes
      /\ helper' \in [state : {"none", "booting", "on", "dead"}, window : Places, lanes : SUBSET Channels, speaker : Who]
  BY DEF Radio, PartTypes, SaysReady
<1>3. l \in LineType /\ l.ev = "ready"
  BY LineTypes DEF Who
<1> HIDE DEF l
<1>4. /\ lines' \in Seq(LineType) /\ ~Booted(lines') /\ (\A c : ~Speaking(lines', c)) /\ ReadyFirst(lines')
  BY <1>1, <1>3, LinesEmpty, LinesAppend
<1>5. PartTypes'
  BY <1>1, <1>2, <1>4 DEF Radio, PartTypes
<1>6. HelperRight'
  BY <1>1, <1>2, <1>4 DEF Radio, HelperRight
<1>7. TunesFollow'
  BY <1>1, <1>4 DEF Radio, TunesFollow
<1>8. LinesLead'
  BY <1>4 DEF LinesLead
<1>9. NewUnproven'
  BY <1>1 DEF Radio, NewUnproven
<1> QED BY <1>5, <1>6, <1>7, <1>8, <1>9 DEF Radio

\* The helper runs a tune: it names a speaker it silences, and the one that weather mode holds.
LEMMA TuneRun == ASSUME Radio, RunsTune PROVE Radio'
<1> DEFINE w == Head(tunes)
           off == Line("audible", None)
           op == Line("open", HeldChannel)
           on == Line("audible", HeldChannel)
           quiet == IF helper.speaker = None THEN <<>> ELSE <<off>>
           rest == IF w = Weather THEN <<op, on>> ELSE <<>>
           told == lines \o quiet
<1>1. /\ helper.state = "on" /\ tunes # <<>> /\ tunes' = Tail(tunes) /\ UNCHANGED <<engine, hub>>
      /\ helper' = [helper EXCEPT !.window = w, !.lanes = IF w = Weather THEN {HeldChannel} ELSE {},
                                  !.speaker = IF w = Weather THEN HeldChannel ELSE None]
      /\ lines' = told \o rest
  BY DEF RunsTune
<1>2. lines \in Seq(LineType) /\ tunes \in Seq(Places) /\ ReadyFirst(lines)
  BY DEF Radio, PartTypes, HelperRight
<1>3. /\ w \in Places /\ tunes' \in Seq(Places) /\ (tunes' # <<>> => tunes'[Len(tunes')] = tunes[Len(tunes)])
      /\ (tunes' = <<>> => tunes[Len(tunes)] = w)
  <2>1. /\ w \in Places /\ Tail(tunes) \in Seq(Places) /\ Len(tunes) \in Nat \ {0} /\ Len(Tail(tunes)) = Len(tunes) - 1
        /\ tunes[1] = w /\ \A i \in 1 .. Len(Tail(tunes)) : Tail(tunes)[i] = tunes[i + 1]
    <3> DEFINE S == Places
    <3>1. tunes \in Seq(S) /\ tunes # <<>> /\ w = Head(tunes)
      BY <1>1, <1>2
    <3> HIDE DEF S, w
    <3>2. /\ Head(tunes) \in S /\ Tail(tunes) \in Seq(S) /\ Len(tunes) \in Nat \ {0} /\ Len(Tail(tunes)) = Len(tunes) - 1
          /\ tunes[1] = Head(tunes) /\ \A i \in 1 .. Len(Tail(tunes)) : Tail(tunes)[i] = tunes[i + 1]
      BY <3>1
    <3> QED BY <3>1, <3>2 DEF S
  <2>0. Len(<<>>) = 0
    OBVIOUS
  <2>2. Tail(tunes) = <<>> => Len(Tail(tunes)) = 0
    BY <2>0, Zenon
  <2>3. Tail(tunes) # <<>> => Len(Tail(tunes)) # 0
    BY <2>1
  <2> DEFINE t == Tail(tunes)
  <2>4. tunes' = t /\ t \in Seq(Places) /\ Len(t) = Len(tunes) - 1 /\ \A i \in 1 .. Len(t) : t[i] = tunes[i + 1]
    BY <1>1, <2>1
  <2> HIDE DEF t, w
  <2>5. ASSUME t # <<>> PROVE t[Len(t)] = tunes[Len(tunes)]
    <3>1. Len(t) \in 1 .. Len(t) /\ Len(t) + 1 = Len(tunes)
      BY <2>1, <2>3, <2>4, <2>5 DEF t
    <3> QED BY <2>4, <3>1
  <2>6. t = <<>> => tunes[Len(tunes)] = w
    <3>1. t = <<>> => Len(tunes) = 1
      BY <2>1, <2>2, <2>4 DEF t
    <3> QED BY <2>1, <3>1
  <2> QED BY <2>1, <2>4, <2>5, <2>6
<1>4. /\ off \in LineType /\ off.ev = "audible" /\ off.ch = None /\ op \in LineType /\ op.ev = "open"
      /\ on \in LineType /\ on.ev = "audible" /\ on.ch = HeldChannel
  BY LineTypes, HeldThere DEF Who
<1> HIDE DEF w, off, op, on
<1>5. /\ told \in Seq(LineType) /\ (Booted(told) <=> Booted(lines)) /\ ReadyFirst(told)
      /\ helper.speaker = None => told = lines
      /\ helper.speaker # None => ~Mute(told) /\ \A c : Speaking(told, c) => c = None
  <2>1. CASE helper.speaker = None
    BY <1>2, <1>4, <2>1, LinesOn
  <2>2. CASE helper.speaker # None
    <3>1. told = Append(lines, off)
      BY <1>2, <1>4, <2>2, LinesOn
    <3> HIDE DEF told
    <3> QED BY <1>2, <1>4, <2>2, <3>1, LinesAppend
  <2> QED BY <2>1, <2>2
<1>6. /\ lines' \in Seq(LineType) /\ (Booted(lines') <=> Booted(lines)) /\ ReadyFirst(lines')
      /\ w # Weather => lines' = told
      /\ w = Weather => ~Mute(lines') /\ \A c : Speaking(lines', c) => c = HeldChannel
  <2> HIDE DEF told
  <2>1. CASE w # Weather
    <3>1. lines' = told
      BY <1>1, <1>4, <1>5, <2>1, LinesOn
    <3> QED BY <1>5, <2>1, <3>1
  <2>2. CASE w = Weather
    <3> DEFINE m == Append(told, op)
    <3>1. lines' = Append(m, on)
      BY <1>1, <1>4, <1>5, <2>2, LinesOn
    <3>2. m \in Seq(LineType) /\ (Booted(m) <=> Booted(told)) /\ ReadyFirst(m)
      BY <1>4, <1>5, LinesAppend
    <3> HIDE DEF m
    <3> QED BY <1>4, <1>5, <2>2, <3>1, <3>2, LinesAppend
  <2> QED BY <2>1, <2>2
<1> HIDE DEF told
<1>7. /\ helper' \in [state : {"none", "booting", "on", "dead"}, window : Places, lanes : SUBSET Channels, speaker : Who]
      /\ helper'.state = "on" /\ helper'.window = w
      /\ helper'.lanes = (IF w = Weather THEN {HeldChannel} ELSE {})
      /\ helper'.speaker = (IF w = Weather THEN HeldChannel ELSE None)
  BY <1>1, <1>3, HeldThere DEF Radio, PartTypes, Who
<1>8. PartTypes'
  BY <1>1, <1>3, <1>6, <1>7 DEF Radio, PartTypes
<1>9. HelperRight'
  BY <1>6, <1>7, HeldThere DEF HelperRight
<1>10. TunesFollow'
  BY <1>1, <1>3, <1>7 DEF Radio, TunesFollow
<1>11. LinesLead' /\ NewUnproven'
  <2>1. \/ ~Mute(lines') /\ \A c : Speaking(lines', c) => c = helper'.speaker
        \/ /\ Mute(lines') => Mute(lines)
           /\ \A c : Speaking(lines', c) => Speaking(lines, c)
           /\ helper'.speaker = helper.speaker
           /\ tunes' = <<>> => tunes = <<>> \/ helper.speaker = None
    <3>1. CASE w = Weather
      BY <1>6, <1>7, <3>1
    <3>2. CASE w # Weather /\ helper.speaker = None
      BY <1>5, <1>6, <1>7, <3>2
    <3>3. CASE w # Weather /\ helper.speaker # None
      BY <1>5, <1>6, <1>7, <3>3
    <3> QED BY <3>1, <3>2, <3>3
  <2> QED BY <1>1, <1>6, <1>7, <2>1, HelperSpeaks
<1> QED BY <1>8, <1>9, <1>10, <1>11 DEF Radio

\* A lane opens or closes on a helper that is on its window.
LEMMA LaneSteps ==
  ASSUME Radio, UNCHANGED <<tunes, engine, hub>>, helper.state = "on", helper'.state = "on", helper'.window = helper.window,
         helper' \in [state : {"none", "booting", "on", "dead"}, window : Places, lanes : SUBSET Channels, speaker : Who],
         \A c \in helper'.lanes : WindowOf[c] = helper.window,
         helper'.speaker = helper.speaker \/ helper'.speaker \in helper'.lanes \cup {None},
         NEW c \in Channels, NEW ev \in {"open", "close"},
         \/ lines' = Append(lines, Line(ev, c)) /\ helper'.speaker = helper.speaker
         \/ lines' = Append(Append(lines, Line(ev, c)), Line("audible", helper'.speaker))
  PROVE  Radio'
<1> DEFINE a == Line(ev, c)
           b == Line("audible", helper'.speaker)
           m == Append(lines, a)
<1>1. lines \in Seq(LineType) /\ ReadyFirst(lines)
  BY DEF Radio, PartTypes, HelperRight
<1>2. a \in LineType /\ a.ev \notin {"ready", "audible"} /\ b \in LineType /\ b.ev = "audible" /\ b.ch = helper'.speaker
  BY LineTypes DEF Who
<1>3. (lines' = m /\ helper'.speaker = helper.speaker) \/ lines' = Append(m, b)
  OBVIOUS
<1> HIDE DEF a, b
<1>4. /\ m \in Seq(LineType) /\ (Booted(m) <=> Booted(lines)) /\ ReadyFirst(m) /\ (Mute(m) <=> Mute(lines))
      /\ \A d : Speaking(m, d) => Speaking(lines, d)
  BY <1>1, <1>2, LinesAppend
<1> HIDE DEF m
<1>5. lines' = Append(m, b) => /\ lines' \in Seq(LineType) /\ (Booted(lines') <=> Booted(lines)) /\ ReadyFirst(lines')
                               /\ ~Mute(lines') /\ \A d : Speaking(lines', d) => d = helper'.speaker
  BY <1>2, <1>4, LinesAppend
<1>6. /\ lines' \in Seq(LineType) /\ (Booted(lines') <=> Booted(lines)) /\ ReadyFirst(lines')
      /\ \/ ~Mute(lines') /\ \A d : Speaking(lines', d) => d = helper'.speaker
         \/ /\ Mute(lines') => Mute(lines)
            /\ \A d : Speaking(lines', d) => Speaking(lines, d)
            /\ helper'.speaker = helper.speaker
            /\ tunes' = <<>> => tunes = <<>> \/ helper.speaker = None
  BY <1>3, <1>4, <1>5
<1>7. LinesLead' /\ NewUnproven'
  BY <1>6, HelperSpeaks
<1>8. PartTypes'
  BY <1>6 DEF Radio, PartTypes
<1>9. HelperRight'
  BY <1>6 DEF Radio, HelperRight
<1>10. TunesFollow'
  BY <1>6 DEF Radio, TunesFollow
<1> QED BY <1>7, <1>8, <1>9, <1>10 DEF Radio

LEMMA LaneOpens == ASSUME Radio, Opens PROVE Radio'
<1>1. PICK c \in Channels \ helper.lanes :
        /\ WindowOf[c] = helper.window
        /\ LET taken == c \notin Silent /\ helper.speaker = None
           IN  /\ helper' = [helper EXCEPT !.lanes = @ \cup {c}, !.speaker = IF taken THEN c ELSE @]
               /\ lines' = Append(lines, Line("open", c)) \o IF taken THEN <<Line("audible", c)>> ELSE <<>>
  BY ZenonT(60) DEF Opens
<1>2. helper.state = "on" /\ UNCHANGED <<tunes, engine, hub>> /\ lines \in Seq(LineType)
  BY DEF Opens, Speaks, Radio, PartTypes
<1> DEFINE taken == c \notin Silent /\ helper.speaker = None
<1>3. /\ helper' \in [state : {"none", "booting", "on", "dead"}, window : Places, lanes : SUBSET Channels, speaker : Who]
      /\ helper'.state = "on" /\ helper'.window = helper.window /\ helper'.lanes = helper.lanes \cup {c}
      /\ helper'.speaker = (IF taken THEN c ELSE helper.speaker)
  BY <1>1, <1>2 DEF Radio, PartTypes, Who
<1>4. lines' = Append(lines, Line("open", c)) \o IF taken THEN <<Line("audible", c)>> ELSE <<>>
  BY <1>1
<1> HIDE DEF taken
<1>5. \A d \in helper'.lanes : WindowOf[d] = helper.window
  BY <1>1, <1>3 DEF Radio, HelperRight
<1>6. Line("open", c) \in LineType /\ Line("audible", c) \in LineType /\ Append(lines, Line("open", c)) \in Seq(LineType)
  BY <1>2, LineTypes DEF Who
<1>7. \/ lines' = Append(lines, Line("open", c)) /\ helper'.speaker = helper.speaker
      \/ lines' = Append(Append(lines, Line("open", c)), Line("audible", helper'.speaker))
  <2>1. CASE taken
    BY <1>3, <1>4, <1>6, <2>1, LinesOn
  <2>2. CASE ~taken
    BY <1>3, <1>4, <1>6, <2>2, LinesOn
  <2> QED BY <2>1, <2>2
<1>8. helper'.speaker = helper.speaker \/ helper'.speaker \in helper'.lanes \cup {None}
  BY <1>3
<1> QED BY <1>2, <1>3, <1>5, <1>7, <1>8, LaneSteps

LEMMA LaneCloses == ASSUME Radio, Closes PROVE Radio'
<1>1. PICK c \in helper.lanes :
        LET others == (helper.lanes \ {c}) \ Silent
            heirs == IF others = {} THEN {None} ELSE others
        IN  \/ /\ c # helper.speaker
               /\ helper' = [helper EXCEPT !.lanes = @ \ {c}]
               /\ lines' = Append(lines, Line("close", c))
            \/ /\ c = helper.speaker
               /\ \E next \in heirs :
                    /\ helper' = [helper EXCEPT !.lanes = @ \ {c}, !.speaker = next]
                    /\ lines' = lines \o <<Line("close", c), Line("audible", next)>>
  BY ZenonT(60) DEF Closes
<1>2. /\ helper.state = "on" /\ UNCHANGED <<tunes, engine, hub>> /\ lines \in Seq(LineType)
      /\ c \in Channels /\ helper.lanes \subseteq Channels
  BY ZenonT(60), <1>1 DEF Closes, Speaks, Radio, PartTypes
<1>w. \A d \in helper.lanes : WindowOf[d] = helper.window
  BY DEF Radio, HelperRight
<1>3. CASE helper' = [helper EXCEPT !.lanes = @ \ {c}] /\ lines' = Append(lines, Line("close", c))
  <2>1. /\ helper' \in [state : {"none", "booting", "on", "dead"}, window : Places, lanes : SUBSET Channels, speaker : Who]
        /\ helper'.state = "on" /\ helper'.window = helper.window /\ helper'.lanes = helper.lanes \ {c}
        /\ helper'.speaker = helper.speaker
    BY <1>2, <1>3 DEF Radio, PartTypes
  <2>2. \A d \in helper'.lanes : WindowOf[d] = helper.window
    BY <1>w, <2>1
  <2> QED BY <1>2, <1>3, <2>1, <2>2, LaneSteps
<1>4. CASE \E next \in ((helper.lanes \ {c}) \cup {None}) :
             /\ helper' = [helper EXCEPT !.lanes = @ \ {c}, !.speaker = next]
             /\ lines' = lines \o <<Line("close", c), Line("audible", next)>>
  <2>1. PICK next \in ((helper.lanes \ {c}) \cup {None}) :
             /\ helper' = [helper EXCEPT !.lanes = @ \ {c}, !.speaker = next]
             /\ lines' = lines \o <<Line("close", c), Line("audible", next)>>
    BY ZenonT(60), <1>4
  <2>2. /\ helper' \in [state : {"none", "booting", "on", "dead"}, window : Places, lanes : SUBSET Channels, speaker : Who]
        /\ helper'.state = "on" /\ helper'.window = helper.window /\ helper'.lanes = helper.lanes \ {c}
        /\ helper'.speaker = next
    BY <1>2, <2>1 DEF Radio, PartTypes, Who
  <2>3. \A d \in helper'.lanes : WindowOf[d] = helper.window
    BY <1>w, <2>2
  <2>4. lines' = Append(Append(lines, Line("close", c)), Line("audible", next))
    BY <1>2, <2>1, LineTypes, LinesOn DEF Who
  <2>5. helper'.speaker = helper.speaker \/ helper'.speaker \in helper'.lanes \cup {None}
    BY <2>1, <2>2
  <2>6. lines' = Append(Append(lines, Line("close", c)), Line("audible", helper'.speaker))
    BY <2>2, <2>4
  <2> QED BY <1>2, <2>2, <2>3, <2>5, <2>6, LaneSteps
<1> QED BY ZenonT(60), <1>1, <1>3, <1>4

LEMMA HelperDies == ASSUME Radio, Dies PROVE Radio'
<1>1. helper' = OffAir("dead") /\ UNCHANGED <<lines, tunes, engine, hub>>
  BY DEF Dies
<1>2. /\ helper' \in [state : {"none", "booting", "on", "dead"}, window : Places, lanes : SUBSET Channels, speaker : Who]
      /\ helper'.state = "dead" /\ helper'.speaker = None /\ helper'.lanes = {}
  BY <1>1, OffAirTypes
<1>3. PartTypes' /\ HelperRight' /\ TunesFollow'
  BY <1>1, <1>2 DEF Radio, PartTypes, HelperRight, TunesFollow
<1>4. LinesLead' /\ NewUnproven'
  BY <1>2 DEF LinesLead, NewUnproven
<1> QED BY <1>3, <1>4 DEF Radio

\* A line is read.
LEMMA ReadTakes ==
  ASSUME Radio, lines # <<>>, lines' = Tail(lines), helper' = helper
  PROVE  LET l == Head(lines)
         IN  /\ lines' \in Seq(LineType) /\ l \in LineType /\ Booted(lines') /\ HelperRight'
             /\ helper.state \in {"on", "dead"}
             /\ l.ev = "ready" => ~Booted(lines)
             /\ l.ev # "ready" => Booted(lines)
             /\ l.ev # "audible" => (Mute(lines') <=> Mute(lines))
             /\ \A c : Speaking(lines', c) => Speaking(lines, c)
             /\ Mute(lines') /\ l.ev = "audible" => Speaking(lines, l.ch)
<1> DEFINE l == Head(lines)
           q == Tail(lines)
<1>1. lines \in Seq(LineType) /\ ReadyFirst(lines) /\ lines' = q /\ helper.state \in {"on", "dead"}
  BY DEF Radio, PartTypes, HelperRight
<1>2. /\ q \in Seq(LineType) /\ l \in LineType
      /\ Booted(lines) => Booted(q) /\ l.ev # "ready"
      /\ Booted(q) /\ (l.ev # "ready" => Booted(lines))
      /\ Mute(lines) <=> Mute(q) /\ l.ev # "audible"
      /\ \A c : Speaking(q, c) => Speaking(lines, c)
      /\ Mute(q) /\ l.ev = "audible" => Speaking(lines, l.ch)
  BY <1>1, LinesTail
<1> HIDE DEF q, l
<1>3. ReadyFirst(q)
  BY <1>2 DEF ReadyFirst, Booted
<1>4. HelperRight'
  BY <1>1, <1>3 DEF Radio, HelperRight
<1> QED BY <1>1, <1>2, <1>4 DEF l

LEMMA HopTold ==
  ASSUME Hubs, engine.unproven \in BOOLEAN, ReleaseOpen
  PROVE  Hubs' /\ SaysSame
<1> DEFINE es == IF engine.open = {} THEN <<>> ELSE <<Event("idle", None, engine.unproven)>>
<1>1. Broadcast(engine.open, es)
  BY DEF ReleaseOpen, Unproven
<1>2. es = <<>> \/ es = <<Event("idle", None, engine.unproven)>>
  OBVIOUS
<1> HIDE DEF es
<1> QED BY <1>1, <1>2, HopKeeps DEF SaysSame

\* "ready": the helper is told its window again.
LEMMA ReadyRead ==
  ASSUME Radio, Hubs, lines # <<>>, lines' = Tail(lines), helper' = helper, Head(lines).ev = "ready", OnReady
  PROVE  Radio' /\ Hubs'
<1> DEFINE q == Tail(lines)
<1>1. /\ engine' = [engine EXCEPT !.open = {}, !.up = TRUE, !.proving = engine.unproven]
      /\ tunes' = Append(tunes, engine.window) /\ ReleaseOpen
  BY DEF OnReady, SendTune, Unproven
<1>2. engine.window \in Places /\ engine.unproven \in BOOLEAN /\ tunes \in Seq(Places)
  BY DEF Radio, PartTypes
<1>3. Hubs' /\ SaysSame
  BY <1>1, <1>2, HopTold
<1>4. /\ engine'.window = engine.window /\ engine'.unproven = engine.unproven
      /\ engine' \in [window : Places, open : SUBSET Channels, failed : BOOLEAN, unproven : BOOLEAN, proving : BOOLEAN, up : BOOLEAN]
  BY <1>1 DEF Radio, PartTypes
<1>5. tunes' \in Seq(Places) /\ tunes' # <<>> /\ tunes'[Len(tunes')] = engine'.window
  BY <1>1, <1>2, <1>4, TunesAppend
<1>6. /\ lines' \in Seq(LineType) /\ Booted(lines') /\ HelperRight' /\ ~Booted(lines) /\ helper.state \in {"on", "dead"}
      /\ \A c : Speaking(lines', c) => Speaking(lines, c)
  BY ReadTakes
<1>7. PartTypes' /\ TunesFollow'
  BY <1>4, <1>5, <1>6 DEF Radio, PartTypes, TunesFollow
<1>8. NewUnproven'
  BY <1>6 DEF NewUnproven
<1>9. LinesLead'
  <2>1. ASSUME helper.state = "on" PROVE ~(hub'.seen /\ ~engine'.unproven)
    BY <1>3, <1>4, <1>6, <2>1 DEF Radio, NewUnproven, SaysSame
  <2>2. ASSUME helper.state = "on", NEW c \in Who, Speaking(lines', c) PROVE c = helper.speaker
    BY <1>6, <2>2 DEF Radio, LinesLead
  <2> QED BY <2>1, <2>2 DEF LinesLead
<1> QED BY <1>3, <1>6, <1>7, <1>8, <1>9 DEF Radio

\* A line about a lane: the hub says of the speaker what it said.
LEMMA LaneRead ==
  ASSUME Radio, SaysSame, lines # <<>>, lines' = Tail(lines), helper' = helper, tunes' = tunes,
         Head(lines).ev \in {"open", "close"},
         engine' \in [window : Places, open : SUBSET Channels, failed : BOOLEAN, unproven : BOOLEAN, proving : BOOLEAN, up : BOOLEAN],
         engine'.window = engine.window, engine'.unproven = engine.unproven
  PROVE  Radio'
<1>1. /\ lines' \in Seq(LineType) /\ Booted(lines') /\ HelperRight' /\ helper.state \in {"on", "dead"}
      /\ Booted(lines) /\ (Mute(lines') <=> Mute(lines)) /\ \A c : Speaking(lines', c) => Speaking(lines, c)
  BY ReadTakes
<1>2. PartTypes' /\ TunesFollow'
  BY <1>1 DEF Radio, PartTypes, TunesFollow
<1>3. NewUnproven'
  BY <1>1 DEF NewUnproven
<1>4. LinesLead'
  <2>1. ASSUME helper.state = "on", NEW c \in Who, Speaking(lines', c) PROVE c = helper.speaker
    BY <1>1, <2>1 DEF Radio, LinesLead
  <2>2. ASSUME helper.state = "on", Mute(lines'), hub'.seen, ~engine'.unproven
        PROVE  Slot(hub') \in {None, helper.speaker} /\ (tunes' = <<>> => Slot(hub') = helper.speaker)
    <3>1. hub.seen /\ ~engine.unproven /\ Slot(hub') = Slot(hub) /\ Mute(lines)
      BY <1>1, <2>2 DEF SaysSame
    <3> QED BY <1>1, <2>2, <3>1 DEF Radio, LinesLead
  <2> QED BY <2>1, <2>2 DEF LinesLead
<1> QED BY <1>1, <1>2, <1>3, <1>4 DEF Radio

LEMMA OpenRead ==
  ASSUME Radio, Hubs, lines # <<>>, lines' = Tail(lines), helper' = helper, tunes' = tunes,
         Head(lines).ev = "open", OnOpen(Head(lines).ch)
  PROVE  Radio' /\ Hubs'
<1> DEFINE c == Head(lines).ch
<1>0. c \in Who /\ OnOpen(c)
  BY ReadTakes DEF LineType
<1> HIDE DEF c
<1>1. CASE ~Mine(c)
  <2>1. UNCHANGED <<engine, hub, page>>
    BY <1>0, <1>1 DEF OnOpen, Quiet
  <2>2. SaysSame /\ Hubs'
    BY <2>1 DEF SaysSame, Hubs, PageRight, Tells, Shown
  <2>3. engine' \in [window : Places, open : SUBSET Channels, failed : BOOLEAN, unproven : BOOLEAN, proving : BOOLEAN, up : BOOLEAN]
    BY <2>1 DEF Radio, PartTypes
  <2> QED BY <2>1, <2>2, <2>3, LaneRead
<1>2. CASE Mine(c)
  <2> DEFINE e == Event("active", c, engine.unproven)
  <2>1. engine' = [engine EXCEPT !.open = @ \cup {c}] /\ Broadcast({}, <<e>>)
    BY <1>0, <1>2 DEF OnOpen, Unproven
  <2>2. e \in EventType /\ e.type \notin {"none", "gap"} /\ ~Told(e)
    BY <1>0 DEF Event, EventType, Told, StatusTypes, Radio, PartTypes
  <2> HIDE DEF e
  <2>3. Hubs' /\ SaysSame
    BY <2>1, <2>2, EventKeeps DEF SaysSame
  <2>4. c \in Channels
    BY <1>0, <1>2 DEF Mine, Who
  <2>5. /\ engine' \in [window : Places, open : SUBSET Channels, failed : BOOLEAN, unproven : BOOLEAN, proving : BOOLEAN, up : BOOLEAN]
        /\ engine'.window = engine.window /\ engine'.unproven = engine.unproven
    BY <2>1, <2>4 DEF Radio, PartTypes
  <2> QED BY <2>3, <2>5, LaneRead
<1> QED BY <1>1, <1>2

LEMMA CloseRead ==
  ASSUME Radio, Hubs, lines # <<>>, lines' = Tail(lines), helper' = helper, tunes' = tunes,
         Head(lines).ev = "close", OnClose(Head(lines).ch)
  PROVE  Radio' /\ Hubs'
<1> DEFINE c == Head(lines).ch
           es == IF engine.open = {c} THEN <<Event("idle", None, engine.unproven)>> ELSE <<>>
<1>1. CASE c \notin engine.open
  <2>1. UNCHANGED <<engine, hub, page>>
    BY <1>1 DEF OnClose, Quiet
  <2>2. SaysSame /\ Hubs'
    BY <2>1 DEF SaysSame, Hubs, PageRight, Tells, Shown
  <2>3. engine' \in [window : Places, open : SUBSET Channels, failed : BOOLEAN, unproven : BOOLEAN, proving : BOOLEAN, up : BOOLEAN]
    BY <2>1 DEF Radio, PartTypes
  <2> QED BY <2>1, <2>2, <2>3, LaneRead
<1>2. CASE c \in engine.open
  <2>1. engine' = [engine EXCEPT !.open = @ \ {c}] /\ Broadcast({c}, es)
    BY <1>2 DEF OnClose, Unproven
  <2>2. es = <<>> \/ es = <<Event("idle", None, engine.unproven)>>
    OBVIOUS
  <2> HIDE DEF c, es
  <2>3. engine.unproven \in BOOLEAN
    BY DEF Radio, PartTypes
  <2>4. Hubs' /\ SaysSame
    BY <2>1, <2>2, <2>3, HopKeeps DEF SaysSame
  <2>5. /\ engine' \in [window : Places, open : SUBSET Channels, failed : BOOLEAN, unproven : BOOLEAN, proving : BOOLEAN, up : BOOLEAN]
        /\ engine'.window = engine.window /\ engine'.unproven = engine.unproven
    BY <2>1 DEF Radio, PartTypes
  <2> QED BY <2>4, <2>5, LaneRead
<1> QED BY <1>1, <1>2

\* A line about the speaker: the slot then says so.
LEMMA AudibleRead ==
  ASSUME Radio, Hubs, lines # <<>>, lines' = Tail(lines), helper' = helper, tunes' = tunes,
         Head(lines).ev = "audible", OnAudible(Head(lines).ch)
  PROVE  Radio' /\ Hubs'
<1> DEFINE c == Head(lines).ch
           d == IF Mine(c) THEN c ELSE None
           e == Event("audible", d, engine.unproven)
<1>1. /\ lines' \in Seq(LineType) /\ c \in Who /\ Booted(lines') /\ HelperRight' /\ helper.state \in {"on", "dead"}
      /\ Booted(lines) /\ (\A x : Speaking(lines', x) => Speaking(lines, x)) /\ (Mute(lines') => Speaking(lines, c))
  BY ReadTakes DEF LineType
<1>2. engine' = engine /\ Broadcast({}, <<e>>)
  BY DEF OnAudible, Unproven
<1> HIDE DEF c
<1>3. d \in Who
  BY <1>1 DEF Who
<1>4. e \in EventType /\ e.type = "audible" /\ e.ch = d /\ Told(e)
  BY <1>3 DEF Event, EventType, Told, Radio, PartTypes
<1>d. (Mine(c) => d = c) /\ (~Mine(c) => d = None)
  OBVIOUS
<1> HIDE DEF d, e
<1>5. Hubs' /\ hub'.seen /\ Slot(hub') = d
  BY <1>2, <1>4, EventKeeps DEF Tells
<1>6. PartTypes' /\ TunesFollow'
  BY <1>1, <1>2 DEF Radio, PartTypes, TunesFollow
<1>7. NewUnproven'
  BY <1>1 DEF NewUnproven
<1>8. LinesLead'
  <2>1. ASSUME helper.state = "on", NEW x \in Who, Speaking(lines', x) PROVE x = helper.speaker
    BY <1>1, <2>1 DEF Radio, LinesLead
  <2>2. ASSUME helper.state = "on", Mute(lines')
        PROVE  Slot(hub') \in {None, helper.speaker} /\ (tunes' = <<>> => Slot(hub') = helper.speaker)
    <3>1. c = helper.speaker
      BY <1>1, <2>2 DEF Radio, LinesLead
    <3>2. tunes = <<>> /\ c # None => Mine(c)
      BY <1>1, <2>2, <3>1 DEF Radio, TunesFollow, HelperRight, Mine
    <3> QED BY <1>5, <1>d, <3>1, <3>2
  <2> QED BY <2>1, <2>2 DEF LinesLead
<1> QED BY <1>1, <1>5, <1>6, <1>7, <1>8 DEF Radio

LEMMA LinesRead == ASSUME Radio, Hubs, ReadLine PROVE Radio' /\ Hubs'
<1>1. lines # <<>> /\ lines' = Tail(lines) /\ helper' = helper
  BY DEF ReadLine
<1>2. \/ Head(lines).ev = "ready" /\ OnReady
      \/ Head(lines).ev = "open" /\ OnOpen(Head(lines).ch) /\ tunes' = tunes
      \/ Head(lines).ev = "close" /\ OnClose(Head(lines).ch) /\ tunes' = tunes
      \/ Head(lines).ev = "audible" /\ OnAudible(Head(lines).ch) /\ tunes' = tunes
  BY DEF ReadLine
<1> QED BY <1>1, <1>2, ReadyRead, OpenRead, CloseRead, AudibleRead

\* READY_PROVEN_MS went by.
LEMMA ProvenKeeps == ASSUME Radio, Hubs, Proven PROVE Radio' /\ Hubs'
<1> DEFINE e == Status("running")
<1>1. engine' = [engine EXCEPT !.proving = FALSE, !.unproven = FALSE] /\ Broadcast({}, <<e>>) /\ UNCHANGED <<helper, lines, tunes>>
  BY DEF Proven
<1>2. e \in EventType /\ e.type \notin {"none", "gap", "audible"} /\ Told(e)
  BY DEF Status, Event, EventType, Who, Told, StatusTypes
<1> HIDE DEF e
<1>3. Hubs' /\ ~hub'.seen
  BY <1>1, <1>2, EventKeeps DEF Tells
<1>4. /\ engine' \in [window : Places, open : SUBSET Channels, failed : BOOLEAN, unproven : BOOLEAN, proving : BOOLEAN, up : BOOLEAN]
      /\ engine'.window = engine.window
  BY <1>1 DEF Radio, PartTypes
<1>5. PartTypes' /\ TunesFollow' /\ HelperRight'
  BY <1>1, <1>4 DEF Radio, PartTypes, TunesFollow, HelperRight
<1>6. LinesLead' /\ NewUnproven'
  BY <1>1, <1>3 DEF Radio, LinesLead, NewUnproven
<1> QED BY <1>3, <1>5, <1>6 DEF Radio

\* A live helper is told to go to another window.
LEMMA HopsTo ==
  ASSUME Radio, Hubs, NEW w \in Places, engine' = [engine EXCEPT !.window = w, !.open = {}], SendTune(w), UNCHANGED <<helper, lines>>
  PROVE  Radio' /\ Hubs'
<1>1. tunes' = Append(tunes, w) /\ ReleaseOpen
  BY DEF SendTune
<1>2. engine.unproven \in BOOLEAN /\ tunes \in Seq(Places)
  BY DEF Radio, PartTypes
<1>3. Hubs' /\ SaysSame
  BY <1>1, <1>2, HopTold
<1>4. /\ engine' \in [window : Places, open : SUBSET Channels, failed : BOOLEAN, unproven : BOOLEAN, proving : BOOLEAN, up : BOOLEAN]
      /\ engine'.window = w /\ engine'.unproven = engine.unproven
  BY DEF Radio, PartTypes
<1>5. tunes' \in Seq(Places) /\ tunes' # <<>> /\ tunes'[Len(tunes')] = w
  BY <1>1, <1>2, TunesAppend
<1>6. PartTypes' /\ TunesFollow' /\ HelperRight'
  BY <1>4, <1>5 DEF Radio, PartTypes, TunesFollow, HelperRight
<1>7. LinesLead' /\ NewUnproven'
  BY <1>3, <1>4, <1>5, HubSame
<1> QED BY <1>3, <1>6, <1>7 DEF Radio

LEMMA HopSteps == ASSUME Radio, Hubs, Hop PROVE Radio' /\ Hubs'
<1>1. PICK w \in Windows \ {engine.window} : engine' = [engine EXCEPT !.window = w, !.open = {}] /\ SendTune(w)
  BY ZenonT(60) DEF Hop
<1>2. w \in Places /\ UNCHANGED <<helper, lines>>
  BY DEF Hop, Places
<1> QED BY ZenonT(60), <1>1, <1>2, HopsTo

\* The engine learns that the helper is gone.
LEMMA ExitSeen == ASSUME Radio, Hubs, HelperExits PROVE Radio' /\ Hubs'
<1>1. /\ helper' = OffAir("none") /\ lines' = <<>> /\ tunes' = <<>>
      /\ engine' = [engine EXCEPT !.failed = TRUE, !.unproven = TRUE, !.proving = FALSE, !.up = FALSE]
  BY DEF HelperExits
<1>2. PICK e \in {Status("starting"), Event("error", None, FALSE)} : Broadcast({}, <<e>>)
  <2>1. Broadcast({}, <<Status("starting")>>) \/ Broadcast({}, <<Event("error", None, FALSE)>>)
    BY Zenon DEF HelperExits
  <2> QED BY <2>1, Zenon
<1>3. e \in EventType /\ e.type \notin {"none", "gap"}
  <2>1. CASE e = Status("starting")
    BY <2>1 DEF Status, Event, EventType, Who, StatusTypes
  <2>2. CASE e = Event("error", None, FALSE)
    BY <2>2 DEF Event, EventType, Who
  <2> QED BY <2>1, <2>2
<1>4. Hubs'
  BY <1>2, <1>3, EventKeeps
<1>5. /\ helper' \in [state : {"none", "booting", "on", "dead"}, window : Places, lanes : SUBSET Channels, speaker : Who]
      /\ helper'.state = "none" /\ helper'.speaker = None /\ helper'.lanes = {}
  BY <1>1, OffAirTypes
<1>6. /\ engine' \in [window : Places, open : SUBSET Channels, failed : BOOLEAN, unproven : BOOLEAN, proving : BOOLEAN, up : BOOLEAN]
      /\ engine'.unproven = TRUE
  BY <1>1 DEF Radio, PartTypes
<1>7. PartTypes' /\ TunesFollow' /\ HelperRight'
  BY <1>1, <1>5, <1>6, LinesEmpty DEF PartTypes, TunesFollow, HelperRight
<1>8. LinesLead' /\ NewUnproven'
  BY <1>5, <1>6 DEF LinesLead, NewUnproven
<1> QED BY <1>4, <1>7, <1>8 DEF Radio

LEMMA Respawns == ASSUME Radio, Respawn PROVE Radio'
<1>1. /\ helper.state = "none" /\ helper' = OffAir("booting") /\ engine' = [engine EXCEPT !.open = {}]
      /\ UNCHANGED <<lines, tunes, hub>>
  BY DEF Respawn
<1>2. /\ helper' \in [state : {"none", "booting", "on", "dead"}, window : Places, lanes : SUBSET Channels, speaker : Who]
      /\ helper'.state = "booting" /\ helper'.speaker = None /\ helper'.lanes = {}
  BY <1>1, OffAirTypes
<1>3. /\ engine' \in [window : Places, open : SUBSET Channels, failed : BOOLEAN, unproven : BOOLEAN, proving : BOOLEAN, up : BOOLEAN]
      /\ engine'.unproven = engine.unproven /\ engine'.window = engine.window
  BY <1>1 DEF Radio, PartTypes
<1>4. PartTypes' /\ TunesFollow' /\ HelperRight'
  BY <1>1, <1>2, <1>3 DEF Radio, PartTypes, TunesFollow, HelperRight
<1>5. LinesLead' /\ NewUnproven'
  BY <1>1, <1>2, <1>3 DEF Radio, LinesLead, NewUnproven
<1> QED BY <1>4, <1>5 DEF Radio

LEMMA StartsOver == ASSUME Radio, Hubs, NEW w \in Places, StartOver(w) PROVE Radio' /\ Hubs'
<1>1. /\ helper' = OffAir("booting") /\ lines' = <<>> /\ tunes' = <<>>
      /\ engine' = [engine EXCEPT !.window = w, !.open = {}, !.up = FALSE, !.proving = FALSE]
      /\ Broadcast({}, <<Status("stopped"), Status("starting"), Status("running")>>)
  BY DEF StartOver
<1>2. Hubs' /\ hub'.seen = FALSE
  BY <1>1, StatusesKeep
<1>3. /\ helper' \in [state : {"none", "booting", "on", "dead"}, window : Places, lanes : SUBSET Channels, speaker : Who]
      /\ helper'.state = "booting" /\ helper'.speaker = None /\ helper'.lanes = {}
  BY <1>1, OffAirTypes
<1>4. engine' \in [window : Places, open : SUBSET Channels, failed : BOOLEAN, unproven : BOOLEAN, proving : BOOLEAN, up : BOOLEAN]
  BY <1>1 DEF Radio, PartTypes
<1>5. PartTypes' /\ TunesFollow' /\ HelperRight'
  BY <1>1, <1>3, <1>4, LinesEmpty DEF PartTypes, TunesFollow, HelperRight
<1>6. LinesLead' /\ NewUnproven'
  BY <1>2, <1>3 DEF LinesLead, NewUnproven
<1> QED BY <1>2, <1>5, <1>6 DEF Radio

LEMMA Restarts == ASSUME Radio, Hubs, Restart PROVE Radio' /\ Hubs'
<1>1. engine.window \in Places /\ StartOver(engine.window)
  BY DEF Restart, Radio, PartTypes
<1> QED BY <1>1, StartsOver

LEMMA ModeSets == ASSUME Radio, Hubs, SetMode PROVE Radio' /\ Hubs'
<1>1. PICK m \in Modes \ {mode} :
        \/ /\ engine' = [engine EXCEPT !.window = FirstWindow(m), !.open = {}] /\ SendTune(FirstWindow(m))
           /\ UNCHANGED <<helper, lines>>
        \/ StartOver(FirstWindow(m))
  BY ZenonT(60) DEF SetMode
<1>2. FirstWindow(m) \in Places
  BY DEF FirstWindow, Places, Modes
<1> DEFINE w == FirstWindow(m)
<1>3. \/ engine' = [engine EXCEPT !.window = w, !.open = {}] /\ SendTune(w) /\ UNCHANGED <<helper, lines>>
      \/ StartOver(w)
  BY <1>1
<1>4. w \in Places
  BY <1>2
<1> HIDE DEF w
<1> QED BY ZenonT(60), <1>3, <1>4, HopsTo, StartsOver

\* The page's socket.
LEMMA SocketDown == ASSUME Hubs, SocketCloses PROVE Hubs'
<1>1. page' = [page EXCEPT !.link = "down", !.inbox = <<>>, !.behind = TRUE] /\ hub' = hub
  BY DEF SocketCloses
<1>2. /\ DOMAIN page' = PageParts /\ page'.link = "down" /\ page'.inbox = <<>> /\ page'.behind = TRUE /\ page'.kind = page.kind
  BY <1>1 DEF Hubs, PageTypes, PageParts
<1>3. <<>> \in Seq(EventType) /\ Len(<<>>) = 0
  OBVIOUS
<1>4. PageTypes(page')
  BY <1>2, <1>3 DEF Hubs, PageTypes
<1>5. PageRight(page', hub)
  BY <1>2, <1>3 DEF PageRight
<1> QED BY <1>1, <1>4, <1>5 DEF Hubs

\* The replay to a page that begins afresh, or that knows it has lost some.
LEMMA Replayed ==
  ASSUME Hubs, hub' = hub, DOMAIN page' = PageParts, page'.link = "up", page'.kind = page.kind,
         page'.inbox = IF hub.slot = NoEvent THEN <<>> ELSE <<hub.slot>>,
         page'.behind = TRUE \/ (page'.behind = FALSE /\ page'.audibleDriven = FALSE)
  PROVE  Hubs'
<1> DEFINE es == IF hub.slot = NoEvent THEN <<>> ELSE <<hub.slot>>
<1>4. hub.slot \in EventType /\ hub.slot.type \in {"none", "active", "audible"} /\ hub.seen \in BOOLEAN
  BY DEF Hubs, HubTypes
<1>5. es \in Seq(EventType) /\ (es = <<>> \/ es = <<hub.slot>>) /\ (hub.slot # NoEvent => es = <<hub.slot>>)
  BY <1>4
<1>6. Len(<<>>) = 0 /\ Len(<<hub.slot>>) = 1 /\ <<hub.slot>>[1] = hub.slot
  OBVIOUS
<1>3. page'.inbox = es
  OBVIOUS
<1> HIDE DEF es
<1>7. PageTypes(page')
  BY <1>3, <1>5 DEF Hubs, PageTypes
<1>8. ASSUME NEW i \in 1 .. Len(es), LastTold(es, i) PROVE Tells(es[i], hub)
  <2>0. es # <<>>
    BY <1>6, <1>8
  <2>4. es = <<hub.slot>> /\ Len(es) = 1
    BY <1>5, <1>6, <2>0
  <2>1. es = <<hub.slot>> /\ i = 1
    BY <1>8, <2>4
  <2>3. es[i] = hub.slot
    BY <1>6, <2>1
  <2>2. hub.slot.type = "audible"
    BY <1>4, <1>8, <2>3 DEF LastTold, Told, StatusTypes
  <2> QED BY <2>2, <2>3 DEF Hubs, SlotRight, Tells, Slot
<1>9. ASSUME NoneTold(es), ~page'.behind PROVE Shown(page', hub)
  <2>1. page'.audibleDriven = FALSE
    BY <1>9
  <2>2. hub.slot.type # "audible"
    <3>1. CASE hub.slot = NoEvent
      BY <3>1 DEF NoEvent, Event
    <3>2. CASE hub.slot # NoEvent
      <4>1. ~Told(hub.slot)
        BY SMTT(60), <1>5, <1>6, <1>9, <3>2 DEF NoneTold
      <4> QED BY <4>1 DEF Told
    <3> QED BY <3>1, <3>2
  <2> QED BY <2>1, <2>2 DEF Shown, Slot
<1>10. PageRight(page', hub)
  BY <1>3, <1>8, <1>9 DEF PageRight
<1> QED BY <1>7, <1>10 DEF Hubs

LEMMA SocketUp == ASSUME Hubs, SocketOpens PROVE Hubs'
<1> DEFINE p == IF page.kind = "admin" THEN Reopened(page) ELSE page
           es == IF hub.slot = NoEvent THEN <<>> ELSE <<hub.slot>>
<1>1. page.link = "down" /\ page' = [p EXCEPT !.link = "up", !.inbox = es] /\ hub' = hub
  BY DEF SocketOpens
<1>2. /\ DOMAIN p = PageParts /\ p.kind = page.kind
      /\ page.kind = "admin" => p.nowPlaying = None /\ p.audibleDriven = FALSE /\ p.behind = FALSE
      /\ page.kind # "admin" => p.behind = TRUE
  BY <1>1 DEF Hubs, PageTypes, PageParts, PageRight, Reopened
<1> HIDE DEF p
<1>3. /\ DOMAIN page' = PageParts /\ page'.link = "up" /\ page'.inbox = es /\ page'.kind = p.kind
      /\ page'.behind = p.behind /\ page'.audibleDriven = p.audibleDriven
  BY <1>1, <1>2 DEF PageParts
<1> QED BY <1>1, <1>2, <1>3, Replayed

\* A page is loaded: as an admin's whose socket opens.
LEMMA PageLoads == ASSUME Hubs, Loads PROVE Hubs'
<1> DEFINE p == FreshPage(page.kind)
           es == IF hub.slot = NoEvent THEN <<>> ELSE <<hub.slot>>
<1>1. page' = [p EXCEPT !.inbox = es] /\ hub' = hub
  BY DEF Loads
<1>2. /\ DOMAIN p = PageParts /\ p.kind = page.kind /\ p.link = "up" /\ p.behind = FALSE
      /\ p.nowPlaying = None /\ p.audibleDriven = FALSE
  BY DEF FreshPage, PageParts
<1> HIDE DEF p
<1>3. /\ DOMAIN page' = PageParts /\ page'.link = "up" /\ page'.inbox = es /\ page'.kind = page.kind
      /\ page'.behind = FALSE /\ page'.audibleDriven = FALSE
  BY <1>1, <1>2 DEF PageParts
<1> QED BY <1>1, <1>3, Replayed

LEMMA SocketWaits == ASSUME Hubs, Stalls \/ Drains PROVE Hubs'
<1>1. PICK x \in {"stuck", "up"} : page' = [page EXCEPT !.link = x]
  BY DEF Stalls, Drains
<1>2. hub' = hub /\ page.link # "down"
  BY DEF Stalls, Drains
<1>3. /\ DOMAIN page' = PageParts /\ page'.link = x /\ page'.inbox = page.inbox /\ page'.behind = page.behind /\ page'.kind = page.kind
      /\ page'.nowPlaying = page.nowPlaying /\ page'.audibleDriven = page.audibleDriven
  BY <1>1 DEF Hubs, PageTypes, PageParts
<1>4. PageTypes(page')
  BY <1>3 DEF Hubs, PageTypes
<1>5. PageRight(page', hub)
  BY <1>3 DEF Hubs, PageRight, Shown
<1> QED BY <1>2, <1>4, <1>5 DEF Hubs

\* Steps of the page leave the radio, and those of the helper the page.
LEMMA RadioRests == ASSUME Radio, UNCHANGED <<helper, lines, tunes, engine, hub>> PROVE Radio'
<1>1. PartTypes' /\ HelperRight' /\ TunesFollow'
  BY DEF Radio, PartTypes, HelperRight, TunesFollow
<1>2. LinesLead' /\ NewUnproven'
  BY DEF Radio, LinesLead, NewUnproven
<1> QED BY <1>1, <1>2 DEF Radio

LEMMA HubsRest == ASSUME Hubs, UNCHANGED <<hub, page>> PROVE Hubs'
BY DEF Hubs

-----------------------------------------------------------------------------
(* Who has been told nothing: the lines and events that name a channel which *)
(* may speak are followed by one about the speaker.                          *)

LEMMA SpokenAppend ==
  ASSUME NEW ls \in Seq(LineType), NEW l \in LineType, NEW x
  PROVE  /\ l.ev = "audible" => OpensSpoken(Append(ls, l), x)
         /\ OpensSpoken(ls, x) /\ (l.ev # "open" \/ l.ch \in Silent \/ x # None) => OpensSpoken(Append(ls, l), x)
<1> DEFINE q == Append(ls, l)
<1>1. /\ Len(q) = Len(ls) + 1 /\ q[Len(ls) + 1] = l /\ Len(ls) \in Nat
      /\ \A i \in 1 .. Len(ls) : q[i] = ls[i]
  OBVIOUS
<1> HIDE DEF q
<1>2. ASSUME l.ev = "audible" PROVE OpensSpoken(q, x)
  <2> SUFFICES ASSUME NEW i \in 1 .. Len(q), q[i].ev = "open"
               PROVE  \E j \in (i + 1) .. Len(q) : q[j].ev = "audible"
    BY DEF OpensSpoken
  <2>1. i # Len(q)
    BY <1>1, <1>2
  <2>2. Len(q) \in (i + 1) .. Len(q)
    BY <1>1, <2>1
  <2> QED BY <1>1, <1>2, <2>2
<1>3. ASSUME OpensSpoken(ls, x), l.ev # "open" \/ l.ch \in Silent \/ x # None PROVE OpensSpoken(q, x)
  <2> SUFFICES ASSUME NEW i \in 1 .. Len(q), q[i].ev = "open", q[i].ch \notin Silent, x = None
               PROVE  \E j \in (i + 1) .. Len(q) : q[j].ev = "audible"
    BY DEF OpensSpoken
  <2>1. i \in 1 .. Len(ls) /\ q[i] = ls[i]
    BY <1>1, <1>3
  <2>2. PICK j \in (i + 1) .. Len(ls) : ls[j].ev = "audible"
    BY <1>3, <2>1 DEF OpensSpoken
  <2>3. j \in (i + 1) .. Len(q) /\ q[j] = ls[j]
    BY <1>1, <2>1, <2>2
  <2> QED BY <2>2, <2>3
<1> QED BY <1>2, <1>3 DEF q

LEMMA SpokenTail ==
  ASSUME NEW ls \in Seq(LineType), ls # <<>>, NEW x, OpensSpoken(ls, x)
  PROVE  /\ OpensSpoken(Tail(ls), x)
         /\ Head(ls).ev = "open" /\ Head(ls).ch \notin Silent /\ x = None => ~Mute(Tail(ls))
<1> DEFINE q == Tail(ls)
<1>1. /\ Len(ls) \in Nat \ {0} /\ Len(q) = Len(ls) - 1 /\ ls[1] = Head(ls)
      /\ \A i \in 1 .. Len(q) : q[i] = ls[i + 1]
  OBVIOUS
<1> HIDE DEF q
<1>2. \A i \in 2 .. Len(ls) : i - 1 \in 1 .. Len(q) /\ q[i - 1] = ls[i]
  <2> TAKE i \in 2 .. Len(ls)
  <2>1. i - 1 \in 1 .. Len(q) /\ (i - 1) + 1 = i
    BY <1>1
  <2> QED BY <1>1, <2>1
<1>3. ASSUME NEW i \in 1 .. Len(q), q[i].ev = "open", q[i].ch \notin Silent, x = None
      PROVE  \E j \in (i + 1) .. Len(q) : q[j].ev = "audible"
  <2>1. i + 1 \in 1 .. Len(ls) /\ ls[i + 1] = q[i]
    BY <1>1
  <2>2. PICK j \in (i + 1 + 1) .. Len(ls) : ls[j].ev = "audible"
    BY <1>3, <2>1 DEF OpensSpoken
  <2>3. j \in 2 .. Len(ls) /\ j - 1 \in (i + 1) .. Len(q)
    BY <1>1, <2>1
  <2> QED BY <1>2, <2>2, <2>3
<1>4. ASSUME Head(ls).ev = "open", Head(ls).ch \notin Silent, x = None PROVE ~Mute(q)
  <2>1. 1 \in 1 .. Len(ls)
    BY <1>1
  <2>2. PICK j \in (1 + 1) .. Len(ls) : ls[j].ev = "audible"
    BY <1>1, <1>4, <2>1 DEF OpensSpoken
  <2>3. j \in 2 .. Len(ls)
    BY <1>1
  <2> QED BY <1>2, <2>2, <2>3 DEF Mute
<1> QED BY <1>3, <1>4 DEF OpensSpoken, q

\* What a page that is told nothing names after events went out, it named before or they name.
LEMMA LoudSent ==
  ASSUME NEW p, PageTypes(p), NEW h, PageRight(p, h), NEW es \in Seq(EventType), ShowsLoud(SentOut(p, es))
  PROVE  /\ ShowsLoud(p) \/ (NothingTold(p) /\ NamesLoud(es))
         /\ \/ p.link = "up" /\ NoneTold(es)
            \/ SentOut(p, es) = p /\ p.link = "stuck" /\ p.inbox # <<>> /\ Last(p.inbox) = Gap
<1> DEFINE q == SentOut(p, es)
<1>0. p.inbox \in Seq(EventType) /\ Len(p.inbox) \in Nat /\ Len(es) \in Nat /\ p.link \in {"up", "down", "stuck"}
      /\ DOMAIN p = PageParts /\ NothingTold(q)
  BY DEF PageTypes, ShowsLoud
<1>1. CASE p.link = "up"
  <2> DEFINE b == p.inbox \o es
  <2>1. q = [p EXCEPT !.inbox = b]
    BY <1>1 DEF SentOut
  <2>2. /\ Len(b) = Len(p.inbox) + Len(es)
        /\ \A i \in 1 .. Len(p.inbox) : b[i] = p.inbox[i]
        /\ \A i \in 1 .. Len(es) : b[Len(p.inbox) + i] = es[i]
    BY SMTT(60), <1>0
  <2> HIDE DEF b
  <2>3. q.inbox = b /\ q.behind = p.behind /\ q.audibleDriven = p.audibleDriven /\ q.nowPlaying = p.nowPlaying
    BY <1>0, <2>1 DEF PageParts
  <2> HIDE DEF q
  <2>4. NoneTold(p.inbox)
    <3>1. \A j \in 1 .. Len(p.inbox) : j \in 1 .. Len(b)
      BY <1>0, <2>2
    <3> QED BY <1>0, <2>2, <2>3, <3>1 DEF NothingTold, NoneTold
  <2>5. NoneTold(es)
    <3>1. \A j \in 1 .. Len(es) : Len(p.inbox) + j \in 1 .. Len(b)
      BY <1>0, <2>2
    <3> QED BY <1>0, <2>2, <2>3, <3>1 DEF NothingTold, NoneTold
  <2>6. NothingTold(p)
    BY <1>0, <2>3, <2>4 DEF NothingTold
  <2>7. CASE Loud(q.nowPlaying)
    BY <1>1, <2>3, <2>5, <2>6, <2>7 DEF ShowsLoud
  <2>8. CASE NamesLoud(q.inbox)
    <3>1. PICK i \in 1 .. Len(b) : b[i].type = "active" /\ Loud(b[i].ch)
      BY <2>3, <2>8 DEF NamesLoud
    <3>2. CASE i \in 1 .. Len(p.inbox)
      <4>1. NamesLoud(p.inbox)
        BY <2>2, <3>1, <3>2 DEF NamesLoud
      <4> QED BY <1>1, <2>5, <2>6, <4>1 DEF ShowsLoud
    <3>3. CASE i \notin 1 .. Len(p.inbox)
      <4>1. i - Len(p.inbox) \in 1 .. Len(es) /\ Len(p.inbox) + (i - Len(p.inbox)) = i
        BY <1>0, <2>2, <3>1, <3>3
      <4>2. es[i - Len(p.inbox)] = b[i]
        BY <2>2, <4>1
      <4>3. NamesLoud(es)
        BY <3>1, <4>1, <4>2 DEF NamesLoud
      <4> QED BY <1>1, <2>5, <2>6, <4>3
    <3> QED BY <3>2, <3>3
  <2> QED BY <2>7, <2>8 DEF ShowsLoud, q
<1>2. CASE p.link = "stuck" /\ (p.inbox = <<>> \/ Last(p.inbox) # Gap)
  <2> DEFINE b == Append(p.inbox, Gap)
  <2>1. q = [p EXCEPT !.inbox = b]
    BY <1>2 DEF SentOut
  <2>2. Len(b) \in 1 .. Len(b) /\ b[Len(b)] = Gap
    BY <1>0, TellingTypes
  <2> HIDE DEF b
  <2>3. q.inbox = b
    BY <1>0, <2>1 DEF PageParts
  <2>4. ~NoneTold(b)
    BY <2>2, TellingTypes DEF NoneTold
  <2> QED BY <1>0, <2>3, <2>4 DEF NothingTold
<1>3. CASE p.link = "stuck" /\ ~(p.inbox = <<>> \/ Last(p.inbox) # Gap)
  <2>1. q = p
    BY <1>3 DEF SentOut
  <2> QED BY <1>3, <2>1
<1>4. CASE p.link = "down"
  <2>1. q = p
    BY <1>4 DEF SentOut
  <2> QED BY <1>0, <1>4, <2>1 DEF PageRight, NothingTold
<1> QED BY <1>0, <1>1, <1>2, <1>3, <1>4

\* A page whose last event is a gap has not been told nothing.
LEMMA GapKnown ==
  ASSUME NEW p, PageTypes(p), p.inbox # <<>>, Last(p.inbox) = Gap
  PROVE  ~NothingTold(p)
<1>1. p.inbox \in Seq(EventType)
  BY DEF PageTypes
<1>2. Len(p.inbox) \in 1 .. Len(p.inbox) /\ p.inbox[Len(p.inbox)] = Gap
  BY <1>1 DEF Last
<1> QED BY <1>2, TellingTypes DEF NothingTold, NoneTold

\* An event goes out.
LEMMA LoudEvent ==
  ASSUME Hubs, NEW gone, NEW e \in EventType, Broadcast(gone, <<e>>), ShowsLoud(page')
  PROVE  ~Told(e) /\ (ShowsLoud(page) \/ (NothingTold(page) /\ e.type = "active" /\ Loud(e.ch)))
<1>1. page' = SentOut(page, <<e>>)
  BY OneEvent
<1>2. <<e>> \in Seq(EventType) /\ Len(<<e>>) = 1 /\ <<e>>[1] = e
  OBVIOUS
<1>3. PageTypes(page) /\ PageRight(page, hub)
  BY DEF Hubs
<1>4. /\ ShowsLoud(page) \/ (NothingTold(page) /\ NamesLoud(<<e>>))
      /\ NoneTold(<<e>>) \/ (page.inbox # <<>> /\ Last(page.inbox) = Gap)
  BY <1>1, <1>2, <1>3, LoudSent
<1>5. NothingTold(page)
  BY <1>4 DEF ShowsLoud
<1>6. NoneTold(<<e>>)
  BY <1>3, <1>4, <1>5, GapKnown
<1>7. ~Told(e)
  BY <1>2, <1>6 DEF NoneTold
<1>8. NamesLoud(<<e>>) => e.type = "active" /\ Loud(e.ch)
  BY <1>2 DEF NamesLoud
<1> QED BY <1>4, <1>7, <1>8

\* Releases, with the idle that may end them, name nobody.
LEMMA LoudHop ==
  ASSUME Hubs, NEW gone, NEW b \in BOOLEAN, NEW es, Broadcast(gone, es), es = <<>> \/ es = <<Event("idle", None, b)>>,
         ShowsLoud(page')
  PROVE  ShowsLoud(page)
<1>1. CASE es = <<Event("idle", None, b)>>
  <2> DEFINE e == Event("idle", None, b)
  <2>1. e \in EventType /\ e.type # "active"
    BY DEF Event, EventType, Who
  <2> HIDE DEF e
  <2>2. Broadcast(gone, <<e>>)
    BY <1>1 DEF e
  <2> QED BY <2>1, <2>2, LoudEvent
<1>2. CASE es = <<>>
  <2>1. page' = IF gone = {} THEN page ELSE SentOut(page, <<>>)
    BY <1>2, NoEvents
  <2>2. <<>> \in Seq(EventType) /\ ~NamesLoud(<<>>)
    BY DEF NamesLoud
  <2>3. CASE gone = {}
    BY <2>1, <2>3
  <2>4. CASE gone # {}
    <3>1. page' = SentOut(page, <<>>) /\ PageTypes(page) /\ PageRight(page, hub)
      BY <2>1, <2>4 DEF Hubs
    <3> QED BY <2>2, <3>1, LoudSent
  <2> QED BY <2>3, <2>4
<1> QED BY <1>1, <1>2

\* Steps of the engine and of the page that leave the helper and its lines.
LEMMA SpeechRests ==
  ASSUME Speech, UNCHANGED <<helper, lines>>, tunes' = <<>> => tunes = <<>>,
         helper.state = "on" /\ hub'.seen /\ ~engine'.unproven /\ ShowsLoud(page') =>
           hub.seen /\ ~engine.unproven /\ ShowsLoud(page)
  PROVE  Speech'
BY DEF Speech, SpeakerDue

\* Steps of a helper that is on.
LEMMA SpeechSpoken ==
  ASSUME Radio, Speech, UNCHANGED <<engine, hub, page>>, helper.state = "on",
         \/ \E x \in Seq(LineType), l \in LineType : l.ev = "audible" /\ lines' = Append(x, l)
         \/ /\ helper'.speaker = helper.speaker /\ tunes' = tunes
            /\ \E l \in LineType : /\ lines' = Append(lines, l) /\ l.ev # "audible"
                                   /\ l.ev # "open" \/ l.ch \in Silent \/ helper.speaker # None
         \/ lines' = lines /\ helper.speaker = None /\ helper'.speaker = None
  PROVE  Speech'
<1>0. OpensSpoken(lines, helper.speaker) /\ lines \in Seq(LineType)
  BY DEF Speech, Radio, PartTypes
<1>1. hub.seen /\ ~engine.unproven /\ ShowsLoud(page) => SpeakerDue
  BY DEF Speech
<1>2. CASE \E x \in Seq(LineType), l \in LineType : l.ev = "audible" /\ lines' = Append(x, l)
  <2>1. PICK x \in Seq(LineType), l \in LineType : l.ev = "audible" /\ lines' = Append(x, l)
    BY <1>2
  <2>2. OpensSpoken(lines', helper'.speaker)
    BY <2>1, SpokenAppend
  <2>3. ~Mute(lines')
    BY <2>1, LinesAppend
  <2> QED BY <2>2, <2>3 DEF Speech, SpeakerDue
<1>3. CASE /\ helper'.speaker = helper.speaker /\ tunes' = tunes
           /\ \E l \in LineType : /\ lines' = Append(lines, l) /\ l.ev # "audible"
                                  /\ l.ev # "open" \/ l.ch \in Silent \/ helper.speaker # None
  <2>1. PICK l \in LineType : /\ lines' = Append(lines, l) /\ l.ev # "audible"
                              /\ l.ev # "open" \/ l.ch \in Silent \/ helper.speaker # None
    BY <1>3
  <2>2. OpensSpoken(lines', helper'.speaker)
    BY <1>0, <1>3, <2>1, SpokenAppend
  <2>3. Mute(lines') <=> Mute(lines)
    BY <1>0, <2>1, LinesAppend
  <2> QED BY <1>1, <1>3, <2>2, <2>3 DEF Speech, SpeakerDue
<1>4. CASE lines' = lines /\ helper.speaker = None /\ helper'.speaker = None
  BY <1>0, <1>1, <1>4 DEF Speech, SpeakerDue
<1> QED BY <1>2, <1>3, <1>4

LEMMA ReadySpeech == ASSUME Radio, Speech, SaysReady PROVE Speech'
<1> DEFINE l == Line("ready", None)
<1>1. lines' = Append(<<>>, l) /\ helper.state = "booting" /\ UNCHANGED <<engine, hub>>
  BY DEF Radio, HelperRight, SaysReady
<1>2. l \in LineType /\ l.ev = "ready" /\ <<>> \in Seq(LineType)
  BY LineTypes, LinesEmpty DEF Who
<1> HIDE DEF l
<1>3. \A x : OpensSpoken(<<>>, x)
  BY DEF OpensSpoken
<1>4. OpensSpoken(lines', helper'.speaker)
  BY <1>1, <1>2, <1>3, SpokenAppend
<1>5. ~hub.seen \/ engine.unproven
  BY <1>1 DEF Radio, NewUnproven
<1> QED BY <1>1, <1>4, <1>5 DEF Speech

LEMMA TuneSpeech == ASSUME Radio, Speech, RunsTune PROVE Speech'
<1> DEFINE w == Head(tunes)
           off == Line("audible", None)
           op == Line("open", HeldChannel)
           on == Line("audible", HeldChannel)
           quiet == IF helper.speaker = None THEN <<>> ELSE <<off>>
           rest == IF w = Weather THEN <<op, on>> ELSE <<>>
           told == lines \o quiet
<1>1. /\ helper.state = "on" /\ UNCHANGED <<engine, hub, page>>
      /\ helper' = [helper EXCEPT !.window = w, !.lanes = IF w = Weather THEN {HeldChannel} ELSE {},
                                  !.speaker = IF w = Weather THEN HeldChannel ELSE None]
      /\ lines' = told \o rest
  BY DEF RunsTune
<1>2. /\ lines \in Seq(LineType) /\ off \in LineType /\ off.ev = "audible" /\ op \in LineType
      /\ on \in LineType /\ on.ev = "audible"
  BY LineTypes, HeldThere DEF Who, Radio, PartTypes
<1>3. helper'.speaker = IF w = Weather THEN HeldChannel ELSE None
  BY <1>1 DEF Radio, PartTypes
<1> HIDE DEF w, off, op, on
<1>4. told \in Seq(LineType) /\ (helper.speaker = None => told = lines) /\ (helper.speaker # None => told = Append(lines, off))
  BY <1>2, LinesOn
<1> HIDE DEF told
<1>5. CASE w = Weather
  <2>1. lines' = Append(Append(told, op), on) /\ Append(told, op) \in Seq(LineType)
    BY <1>1, <1>2, <1>4, <1>5, LinesOn
  <2> QED BY <1>1, <1>2, <2>1, SpeechSpoken
<1>6. CASE w # Weather
  <2>1. lines' = told
    BY <1>1, <1>2, <1>4, <1>6, LinesOn
  <2>2. CASE helper.speaker = None
    BY <1>1, <1>3, <1>4, <1>6, <2>1, <2>2, SpeechSpoken
  <2>3. CASE helper.speaker # None
    BY <1>1, <1>2, <1>4, <2>1, <2>3, SpeechSpoken
  <2> QED BY <2>2, <2>3
<1> QED BY <1>5, <1>6

LEMMA OpenSpeech == ASSUME Radio, Speech, Opens PROVE Speech'
<1>1. PICK c \in Channels \ helper.lanes :
        /\ WindowOf[c] = helper.window
        /\ LET taken == c \notin Silent /\ helper.speaker = None
           IN  /\ helper' = [helper EXCEPT !.lanes = @ \cup {c}, !.speaker = IF taken THEN c ELSE @]
               /\ lines' = Append(lines, Line("open", c)) \o IF taken THEN <<Line("audible", c)>> ELSE <<>>
  BY ZenonT(60) DEF Opens
<1>2. helper.state = "on" /\ UNCHANGED <<tunes, engine, hub, page>> /\ lines \in Seq(LineType)
  BY DEF Opens, Speaks, Radio, PartTypes
<1> DEFINE taken == c \notin Silent /\ helper.speaker = None
           a == Line("open", c)
           b == Line("audible", c)
<1>3. helper'.speaker = (IF taken THEN c ELSE helper.speaker)
  BY <1>1, <1>2 DEF Radio, PartTypes
<1>4. lines' = Append(lines, a) \o IF taken THEN <<b>> ELSE <<>>
  BY <1>1
<1>5. a \in LineType /\ a.ev = "open" /\ a.ch = c /\ b \in LineType /\ b.ev = "audible" /\ Append(lines, a) \in Seq(LineType)
  BY <1>2, LineTypes DEF Who
<1> HIDE DEF a, b
<1>6. CASE taken
  <2>1. lines' = Append(Append(lines, a), b)
    BY <1>4, <1>5, <1>6, LinesOn
  <2> QED BY <1>2, <1>5, <2>1, SpeechSpoken
<1>7. CASE ~taken
  <2>1. lines' = Append(lines, a) /\ helper'.speaker = helper.speaker
    BY <1>3, <1>4, <1>5, <1>7, LinesOn
  <2> QED BY <1>2, <1>5, <1>7, <2>1, SpeechSpoken
<1> QED BY <1>6, <1>7

LEMMA CloseSpeech == ASSUME Radio, Speech, Closes PROVE Speech'
<1>1. PICK c \in helper.lanes :
        LET others == (helper.lanes \ {c}) \ Silent
            heirs == IF others = {} THEN {None} ELSE others
        IN  \/ /\ c # helper.speaker
               /\ helper' = [helper EXCEPT !.lanes = @ \ {c}]
               /\ lines' = Append(lines, Line("close", c))
            \/ /\ c = helper.speaker
               /\ \E next \in heirs :
                    /\ helper' = [helper EXCEPT !.lanes = @ \ {c}, !.speaker = next]
                    /\ lines' = lines \o <<Line("close", c), Line("audible", next)>>
  BY ZenonT(60) DEF Closes
<1>2. /\ helper.state = "on" /\ UNCHANGED <<tunes, engine, hub, page>> /\ lines \in Seq(LineType)
      /\ c \in Channels /\ helper.lanes \subseteq Channels
  BY ZenonT(60), <1>1 DEF Closes, Speaks, Radio, PartTypes
<1> DEFINE a == Line("close", c)
<1>3. a \in LineType /\ a.ev = "close" /\ Append(lines, a) \in Seq(LineType)
  BY <1>2, LineTypes DEF Who
<1>4. CASE helper' = [helper EXCEPT !.lanes = @ \ {c}] /\ lines' = Append(lines, a)
  <2>1. helper'.speaker = helper.speaker
    BY <1>2, <1>4 DEF Radio, PartTypes
  <2> HIDE DEF a
  <2> QED BY <1>2, <1>3, <1>4, <2>1, SpeechSpoken
<1>5. CASE \E next \in ((helper.lanes \ {c}) \cup {None}) :
             /\ helper' = [helper EXCEPT !.lanes = @ \ {c}, !.speaker = next]
             /\ lines' = lines \o <<a, Line("audible", next)>>
  <2>1. PICK next \in ((helper.lanes \ {c}) \cup {None}) : lines' = lines \o <<a, Line("audible", next)>>
    BY ZenonT(60), <1>5
  <2>2. Line("audible", next) \in LineType /\ Line("audible", next).ev = "audible"
    BY <1>2, LineTypes DEF Who
  <2> HIDE DEF a
  <2>3. lines' = Append(Append(lines, a), Line("audible", next))
    BY <1>2, <1>3, <2>1, <2>2, LinesOn
  <2> QED BY <1>2, <1>3, <2>2, <2>3, SpeechSpoken
<1> QED BY ZenonT(60), <1>1, <1>4, <1>5

\* A line is read.
LEMMA ReadSpeech == ASSUME Radio, Hubs, Speech, ReadLine PROVE Speech'
<1> DEFINE l == Head(lines)
           c == l.ch
<1>1. lines # <<>> /\ lines' = Tail(lines) /\ helper' = helper /\ lines \in Seq(LineType) /\ engine.unproven \in BOOLEAN
  BY DEF ReadLine, Radio, PartTypes
<1>2. \/ l.ev = "ready" /\ OnReady
      \/ l.ev = "open" /\ OnOpen(c) /\ tunes' = tunes
      \/ l.ev = "close" /\ OnClose(c) /\ tunes' = tunes
      \/ l.ev = "audible" /\ OnAudible(c) /\ tunes' = tunes
  BY DEF ReadLine
<1>3. /\ c \in Who
      /\ l.ev = "ready" => ~Booted(lines)
      /\ l.ev # "ready" => Booted(lines)
      /\ l.ev # "audible" => (Mute(lines') <=> Mute(lines))
  BY <1>1, ReadTakes DEF LineType
<1>4. ASSUME helper.state = "on"
      PROVE  /\ OpensSpoken(lines', helper.speaker)
             /\ l.ev = "open" /\ c \notin Silent /\ helper.speaker = None => ~Mute(lines')
  <2>1. OpensSpoken(lines, helper.speaker)
    BY <1>4 DEF Speech
  <2> QED BY <1>1, <2>1, SpokenTail
<1> HIDE DEF l, c
<1> SUFFICES ASSUME helper.state = "on", hub'.seen, ~engine'.unproven, ShowsLoud(page') PROVE SpeakerDue'
  BY <1>1, <1>4 DEF Speech
<1>5. CASE l.ev = "ready" /\ OnReady
  <2>1. engine'.unproven = engine.unproven /\ ReleaseOpen
    BY <1>5 DEF OnReady, SendTune, Radio, PartTypes
  <2>2. hub'.seen = hub.seen
    BY <1>1, <2>1, HopTold DEF SaysSame
  <2> QED BY <1>3, <1>5, <2>1, <2>2 DEF Radio, NewUnproven
<1>6. CASE l.ev = "open" /\ OnOpen(c) /\ tunes' = tunes
  <2>1. CASE ~Mine(c)
    <3>1. UNCHANGED <<engine, hub, page>>
      BY <1>6, <2>1 DEF OnOpen, Quiet
    <3> QED BY <1>1, <1>3, <1>6, <3>1 DEF Speech, SpeakerDue
  <2>2. CASE Mine(c)
    <3> DEFINE e == Event("active", c, engine.unproven)
    <3>1. engine' = [engine EXCEPT !.open = @ \cup {c}] /\ Broadcast({}, <<e>>)
      BY <1>6, <2>2 DEF OnOpen, Unproven
    <3>2. e \in EventType /\ e.type \notin {"none", "gap"} /\ e.ch = c /\ ~Told(e)
      BY <1>1, <1>3 DEF Event, EventType, Told, StatusTypes
    <3> HIDE DEF e
    <3>3. engine'.unproven = engine.unproven
      BY <3>1 DEF Radio, PartTypes
    <3>4. hub'.seen = hub.seen
      BY <3>1, <3>2, EventKeeps
    <3>5. ShowsLoud(page) \/ (NothingTold(page) /\ Loud(c))
      BY <3>1, <3>2, LoudEvent
    <3>6. CASE ShowsLoud(page)
      BY <1>1, <1>3, <1>6, <3>3, <3>4, <3>6 DEF Speech, SpeakerDue
    <3>7. CASE NothingTold(page) /\ Loud(c)
      <4>1. CASE helper.speaker = None
        BY <1>4, <1>6, <3>7, <4>1 DEF Loud, SpeakerDue
      <4>2. CASE helper.speaker # None /\ tunes # <<>>
        BY <1>1, <1>6, <4>2 DEF SpeakerDue
      <4>3. CASE helper.speaker # None /\ tunes = <<>>
        <5>1. Slot(hub) = None
          BY <3>4, <3>7 DEF Hubs, PageRight, NothingTold, Shown
        <5>2. Mute(lines) => Slot(hub) = helper.speaker
          BY <1>3, <1>6, <3>3, <3>4, <4>3 DEF Radio, LinesLead
        <5>3. ~Mute(lines)
          BY <4>3, <5>1, <5>2
        <5> QED BY <1>3, <1>6, <5>3 DEF SpeakerDue
      <4> QED BY <4>1, <4>2, <4>3
    <3> QED BY <3>5, <3>6, <3>7
  <2> QED BY <2>1, <2>2
<1>7. CASE l.ev = "close" /\ OnClose(c) /\ tunes' = tunes
  <2>1. engine'.unproven = engine.unproven /\ hub'.seen = hub.seen /\ ShowsLoud(page)
    <3>1. CASE c \notin engine.open
      BY <1>7, <3>1 DEF OnClose, Quiet
    <3>2. CASE c \in engine.open
      <4> DEFINE es == IF engine.open = {c} THEN <<Event("idle", None, engine.unproven)>> ELSE <<>>
      <4>1. engine' = [engine EXCEPT !.open = @ \ {c}] /\ Broadcast({c}, es)
        BY <1>7, <3>2 DEF OnClose, Unproven
      <4>2. es = <<>> \/ es = <<Event("idle", None, engine.unproven)>>
        OBVIOUS
      <4> HIDE DEF es
      <4>3. engine'.unproven = engine.unproven
        BY <4>1 DEF Radio, PartTypes
      <4> QED BY <1>1, <4>1, <4>2, <4>3, HopKeeps, LoudHop
    <3> QED BY <3>1, <3>2
  <2> QED BY <1>1, <1>3, <1>7, <2>1 DEF Speech, SpeakerDue
<1>8. CASE l.ev = "audible" /\ OnAudible(c) /\ tunes' = tunes
  <2> DEFINE e == Event("audible", IF Mine(c) THEN c ELSE None, engine.unproven)
  <2>1. Broadcast({}, <<e>>)
    BY <1>8 DEF OnAudible, Unproven
  <2>2. e \in EventType /\ Told(e)
    BY <1>1, <1>3 DEF Event, EventType, Told, Who
  <2> HIDE DEF e
  <2> QED BY <2>1, <2>2, LoudEvent
<1> QED BY <1>2, <1>5, <1>6, <1>7, <1>8

\* A live helper is told to go to another window.
LEMMA HopSpeech ==
  ASSUME Radio, Hubs, Speech, NEW w \in Places, engine' = [engine EXCEPT !.window = w, !.open = {}], SendTune(w),
         UNCHANGED <<helper, lines>>
  PROVE  Speech'
<1> DEFINE es == IF engine.open = {} THEN <<>> ELSE <<Event("idle", None, engine.unproven)>>
<1>1. tunes' = Append(tunes, w) /\ Broadcast(engine.open, es) /\ ReleaseOpen
  BY DEF SendTune, ReleaseOpen, Unproven
<1>2. engine.unproven \in BOOLEAN /\ tunes \in Seq(Places) /\ engine'.unproven = engine.unproven
  BY DEF Radio, PartTypes
<1>3. es = <<>> \/ es = <<Event("idle", None, engine.unproven)>>
  OBVIOUS
<1> HIDE DEF es
<1>4. hub'.seen = hub.seen
  BY <1>1, <1>2, HopTold DEF SaysSame
<1>5. ShowsLoud(page') => ShowsLoud(page)
  BY <1>1, <1>2, <1>3, LoudHop
<1>6. tunes' # <<>>
  BY <1>1, <1>2, TunesAppend
<1> QED BY <1>2, <1>4, <1>5, <1>6, SpeechRests

LEMMA HopsSpeech == ASSUME Radio, Hubs, Speech, Hop PROVE Speech'
<1>1. PICK w \in Windows \ {engine.window} : engine' = [engine EXCEPT !.window = w, !.open = {}] /\ SendTune(w)
  BY ZenonT(60) DEF Hop
<1>2. w \in Places /\ UNCHANGED <<helper, lines>>
  BY DEF Hop, Places
<1> QED BY ZenonT(60), <1>1, <1>2, HopSpeech

LEMMA ModeSpeech == ASSUME Radio, Hubs, Speech, SetMode PROVE Speech'
<1>1. PICK m \in Modes \ {mode} :
        \/ /\ engine' = [engine EXCEPT !.window = FirstWindow(m), !.open = {}] /\ SendTune(FirstWindow(m))
           /\ UNCHANGED <<helper, lines>>
        \/ StartOver(FirstWindow(m))
  BY ZenonT(60) DEF SetMode
<1>2. FirstWindow(m) \in Places
  BY DEF FirstWindow, Places, Modes
<1> DEFINE w == FirstWindow(m)
<1>3. \/ engine' = [engine EXCEPT !.window = w, !.open = {}] /\ SendTune(w) /\ UNCHANGED <<helper, lines>>
      \/ StartOver(w)
  BY <1>1
<1>4. w \in Places
  BY <1>2
<1> HIDE DEF w
<1>5. StartOver(w) => Speech'
  BY OffAirTypes DEF StartOver, Speech
<1> QED BY ZenonT(60), <1>3, <1>4, <1>5, HopSpeech

\* The status that proves the helper takes the slot from the audible events.
LEMMA ProvenSpeech == ASSUME Radio, Hubs, Speech, Proven PROVE Speech'
<1> DEFINE e == Status("running")
<1>1. Broadcast({}, <<e>>) /\ UNCHANGED <<helper, lines, tunes>>
  BY DEF Proven
<1>2. e \in EventType /\ e.type \notin {"none", "gap", "audible"} /\ Told(e)
  BY DEF Status, Event, EventType, Who, Told, StatusTypes
<1> HIDE DEF e
<1>3. ~hub'.seen
  BY <1>1, <1>2, EventKeeps DEF Tells
<1> QED BY <1>1, <1>3, SpeechRests

\* An event is delivered: what a page that is still told nothing names, it named before.
LEMMA DeliverSpeech == ASSUME Hubs, Speech, Deliver PROVE Speech'
<1> DEFINE e == Head(page.inbox)
           q == Tail(page.inbox)
           p == [page EXCEPT !.inbox = Tail(@), !.behind = (@ \/ e = Gap) /\ ~Told(e)]
           s == Playing(p, e)
<1>0. page.inbox # <<>> /\ page.inbox \in Seq(EventType) /\ UNCHANGED <<helper, lines, tunes, engine, hub>>
  BY DEF Deliver, Hubs, PageTypes
<1>1. /\ p.inbox = q /\ DOMAIN p = PageParts /\ p.nowPlaying = page.nowPlaying /\ p.audibleDriven = page.audibleDriven
      /\ p.behind = ((page.behind \/ e = Gap) /\ ~Told(e))
  BY DEF Hubs, PageTypes, PageParts
<1>2. page' = IF page.kind = "wall" THEN OnWall(p, e) ELSE OnAdmin(p, e)
  BY DEF Deliver
<1>3. /\ e \in EventType
      /\ \A i \in 1 .. Len(q) : i + 1 \in 1 .. Len(page.inbox) /\ q[i] = page.inbox[i + 1]
      /\ NoneTold(q) => IF Told(e) THEN LastTold(page.inbox, 1) ELSE e.type = "gap" \/ NoneTold(page.inbox)
      /\ 1 \in 1 .. Len(page.inbox) /\ page.inbox[1] = e
  BY <1>0, TailEvents
<1> HIDE DEF p, e, q
<1>4. /\ DOMAIN s = PageParts /\ s.inbox = q /\ s.behind = p.behind
      /\ e.type = "audible" => s.audibleDriven = TRUE
      /\ ~Told(e) => s.audibleDriven = page.audibleDriven
      /\ ~Told(e) => s.nowPlaying = page.nowPlaying \/ s.nowPlaying = None \/ (e.type = "active" /\ s.nowPlaying = e.ch)
  <2>1. CASE e.type = "audible"
    <3>1. s = [p EXCEPT !.nowPlaying = e.ch, !.audibleDriven = TRUE] /\ Told(e)
      BY <2>1 DEF Playing, StatusTypes, Told
    <3> QED BY <1>1, <2>1, <3>1, PlayingSet
  <2>2. CASE e.type \in StatusTypes
    <3>1. e.type # "audible" /\ e.type # "active" /\ e.type # "idle" /\ Told(e)
      BY <2>2 DEF StatusTypes, Told
    <3>2. s = [p EXCEPT !.nowPlaying = None, !.audibleDriven = FALSE]
      BY <2>2, <3>1 DEF Playing
    <3> QED BY <1>1, <3>1, <3>2, PlayingSet
  <2>3. CASE e.type = "active" /\ ~p.audibleDriven
    <3>1. s = [p EXCEPT !.nowPlaying = e.ch]
      BY <2>3 DEF Playing, StatusTypes
    <3> QED BY <1>1, <2>3, <3>1, PlayingSet
  <2>4. CASE e.type = "idle" /\ ~p.audibleDriven
    <3>1. s = [p EXCEPT !.nowPlaying = None]
      BY <2>4 DEF Playing, StatusTypes
    <3> QED BY <1>1, <2>4, <3>1, PlayingSet
  <2>5. CASE /\ e.type # "audible" /\ e.type \notin StatusTypes
             /\ ~(e.type = "active" /\ ~p.audibleDriven) /\ ~(e.type = "idle" /\ ~p.audibleDriven)
    <3>1. s = p
      BY <2>5 DEF Playing
    <3> QED BY <1>1, <2>5, <3>1
  <2> QED BY <2>1, <2>2, <2>3, <2>4, <2>5
<1> HIDE DEF s
<1>5. page'.inbox = q /\ page'.behind = p.behind /\ page'.nowPlaying = s.nowPlaying /\ page'.audibleDriven = s.audibleDriven
  <2>1. CASE page.kind = "wall"
    <3> DEFINE w == [s EXCEPT !.error = (@ \/ e.type = "error") /\ ~Lifts(e), !.state = IF e.type \in StatusTypes THEN e.type ELSE @]
    <3>1. page' = w
      BY <1>2, <2>1 DEF OnWall, s
    <3> QED BY <1>4, <3>1 DEF PageParts
  <2>2. CASE page.kind # "wall"
    BY <1>2, <1>4, <2>2 DEF OnAdmin, s
  <2> QED BY <2>1, <2>2
<1>6. ASSUME ShowsLoud(page'), hub.seen PROVE ShowsLoud(page)
  <2>1. NoneTold(q) /\ ~p.behind /\ ~s.audibleDriven /\ (Loud(s.nowPlaying) \/ NamesLoud(q))
    BY <1>5, <1>6 DEF ShowsLoud, NothingTold
  <2>2. ~Told(e)
    <3> SUFFICES ASSUME Told(e) PROVE FALSE
      OBVIOUS
    <3>1. Tells(e, hub)
      BY <1>3, <2>1 DEF Hubs, PageRight
    <3> QED BY <1>4, <1>6, <2>1, <3>1 DEF Tells
  <2>3. ~page.behind /\ e # Gap
    BY <1>1, <2>1, <2>2
  <2>4. NothingTold(page)
    BY <1>3, <1>4, <2>1, <2>2, <2>3, TellingTypes DEF NothingTold
  <2>5. NamesLoud(q) => NamesLoud(page.inbox)
    BY <1>3 DEF NamesLoud
  <2>6. ~Loud(None)
    BY DEF Loud
  <2>7. Loud(s.nowPlaying) => Loud(page.nowPlaying) \/ NamesLoud(page.inbox)
    BY <1>3, <1>4, <2>2, <2>6 DEF NamesLoud
  <2> QED BY <2>1, <2>4, <2>5, <2>7 DEF ShowsLoud
<1> QED BY <1>0, <1>6, SpeechRests

\* The socket and the page: one that begins afresh shows nothing, and the slot names a speaker or nobody.
LEMMA PageSpeech == ASSUME Hubs, Speech, SocketOpens \/ Loads \/ SocketCloses \/ Stalls \/ Drains PROVE Speech'
<1>0. UNCHANGED <<helper, lines, tunes, engine, hub>>
  BY DEF SocketOpens, Loads, SocketCloses, Stalls, Drains
<1>1. ASSUME ShowsLoud(page'), hub.seen PROVE ShowsLoud(page)
  <2> DEFINE es == IF hub.slot = NoEvent THEN <<>> ELSE <<hub.slot>>
  <2>1. ~NamesLoud(es)
    <3>1. hub.slot.type # "active"
      BY <1>1 DEF Hubs, SlotRight
    <3>2. Len(<<>>) = 0 /\ Len(<<hub.slot>>) = 1 /\ <<hub.slot>>[1] = hub.slot
      OBVIOUS
    <3> QED BY <3>1, <3>2 DEF NamesLoud
  <2> HIDE DEF es
  <2>2. ~Loud(None)
    BY DEF Loud
  <2>3. CASE SocketOpens
    <3> DEFINE p == IF page.kind = "admin" THEN Reopened(page) ELSE page
    <3>1. page.link = "down" /\ page' = [p EXCEPT !.link = "up", !.inbox = es]
      BY <2>3 DEF SocketOpens, es
    <3>2. /\ DOMAIN p = PageParts
          /\ page.kind = "admin" => p.nowPlaying = None
          /\ page.kind # "admin" => p.behind = TRUE
      BY <3>1 DEF Hubs, PageTypes, PageParts, PageRight, Reopened
    <3> HIDE DEF p
    <3>3. page'.inbox = es /\ page'.behind = p.behind /\ page'.nowPlaying = p.nowPlaying
      BY <3>1, <3>2 DEF PageParts
    <3> QED BY <1>1, <2>1, <2>2, <3>2, <3>3 DEF ShowsLoud, NothingTold
  <2>4. CASE Loads
    <3> DEFINE p == FreshPage(page.kind)
    <3>1. page' = [p EXCEPT !.inbox = es]
      BY <2>4 DEF Loads, es
    <3>2. DOMAIN p = PageParts /\ p.nowPlaying = None
      BY DEF FreshPage, PageParts
    <3> HIDE DEF p
    <3>3. page'.inbox = es /\ page'.nowPlaying = None
      BY <3>1, <3>2 DEF PageParts
    <3> QED BY <1>1, <2>1, <2>2, <3>3 DEF ShowsLoud
  <2>5. CASE SocketCloses
    <3>1. page' = [page EXCEPT !.link = "down", !.inbox = <<>>, !.behind = TRUE]
      BY <2>5 DEF SocketCloses
    <3>2. page'.behind = TRUE
      BY <3>1 DEF Hubs, PageTypes, PageParts
    <3> QED BY <1>1, <3>2 DEF ShowsLoud, NothingTold
  <2>6. CASE Stalls \/ Drains
    <3>1. PICK x \in {"stuck", "up"} : page' = [page EXCEPT !.link = x]
      BY <2>6 DEF Stalls, Drains
    <3>2. page'.inbox = page.inbox /\ page'.behind = page.behind /\ page'.nowPlaying = page.nowPlaying
          /\ page'.audibleDriven = page.audibleDriven
      BY <3>1 DEF Hubs, PageTypes, PageParts
    <3> QED BY <1>1, <3>2 DEF ShowsLoud, NothingTold
  <2> QED BY <2>3, <2>4, <2>5, <2>6
<1> QED BY <1>0, <1>1, SpeechRests

LEMMA SpeechSteps == ASSUME Radio, Hubs, Speech, [PlayingNext]_playingVars PROVE Speech'
<1>1. CASE HelperStep
  BY <1>1, ReadySpeech, TuneSpeech, OpenSpeech, CloseSpeech DEF HelperStep
<1>2. CASE ReadLine
  BY <1>2, ReadSpeech
<1>3. CASE Proven
  BY <1>3, ProvenSpeech
<1>4. CASE HelperExits \/ Respawn \/ Restart \/ Dies
  <2>1. helper'.state # "on"
    BY <1>4, OffAirTypes DEF HelperExits, Respawn, Restart, StartOver, Dies
  <2> QED BY <2>1 DEF Speech
<1>5. CASE Deliver
  BY <1>5, DeliverSpeech
<1>6. CASE SocketOpens \/ Loads \/ SocketCloses \/ Stalls \/ Drains
  BY <1>6, PageSpeech
<1>7. CASE Hop
  BY <1>7, HopsSpeech
<1>8. CASE SetMode
  BY <1>8, ModeSpeech
<1>9. CASE UNCHANGED playingVars
  BY <1>9, SpeechRests DEF playingVars
<1> QED BY <1>1, <1>2, <1>3, <1>4, <1>5, <1>6, <1>7, <1>8, <1>9 DEF PlayingNext, EngineStep, PageStep

-----------------------------------------------------------------------------
(* The page follows the speaker. *)

LEMMA PlayingStarts == ASSUME PlayingInit PROVE Radio /\ Hubs /\ Speech
<1>1. /\ helper = OffAir("booting") /\ lines = <<>> /\ tunes = <<>>
      /\ engine = [window |-> FirstWindow("scan"), open |-> {}, failed |-> FALSE,
                   unproven |-> FALSE, proving |-> FALSE, up |-> FALSE]
      /\ hub = [slot |-> NoEvent, seen |-> FALSE]
  BY DEF PlayingInit
<1>2. PICK k \in {"wall", "admin"} : page = FreshPage(k)
  BY DEF PlayingInit
<1>3. /\ helper \in [state : {"none", "booting", "on", "dead"}, window : Places, lanes : SUBSET Channels, speaker : Who]
      /\ helper.state = "booting" /\ helper.speaker = None /\ helper.lanes = {}
  BY <1>1, OffAirTypes
<1>4. engine \in [window : Places, open : SUBSET Channels, failed : BOOLEAN, unproven : BOOLEAN, proving : BOOLEAN, up : BOOLEAN]
  <2>1. FirstWindow("scan") \in Places
    BY DEF Places
  <2> QED BY <1>1, <2>1
<1>5. hub.seen = FALSE /\ HubTypes(hub) /\ SlotRight(hub)
  BY <1>1, TellingTypes DEF HubTypes, SlotRight, NoEvent, Event
<1>6. PartTypes /\ HelperRight /\ TunesFollow
  BY <1>1, <1>3, <1>4, LinesEmpty DEF PartTypes, HelperRight, TunesFollow
<1>7. LinesLead /\ NewUnproven
  BY <1>3, <1>5 DEF LinesLead, NewUnproven
<1>8. PageTypes(page) /\ PageRight(page, hub)
  <2>1. <<>> \in Seq(EventType) /\ Len(<<>>) = 0
    OBVIOUS
  <2>2. /\ DOMAIN page = PageParts /\ page.inbox = <<>> /\ page.link = "up" /\ page.behind = FALSE /\ page.kind = k
    BY <1>2 DEF FreshPage, PageParts
  <2>3. PageTypes(page)
    BY <2>1, <2>2 DEF PageTypes
  <2>4. PageRight(page, hub)
    BY <1>5, <2>1, <2>2 DEF PageRight, Shown
  <2> QED BY <2>3, <2>4
<1>9. Speech
  BY <1>3 DEF Speech
<1> QED BY <1>5, <1>6, <1>7, <1>8, <1>9 DEF Radio, Hubs

LEMMA PlayingSteps == ASSUME Radio, Hubs, [PlayingNext]_playingVars PROVE Radio' /\ Hubs'
<1>1. CASE SaysReady
  BY <1>1, ReadySaid, HubsRest DEF SaysReady
<1>2. CASE RunsTune
  BY <1>2, TuneRun, HubsRest DEF RunsTune
<1>3. CASE Opens
  BY ZenonT(60), <1>3, LaneOpens, HubsRest DEF Opens
<1>4. CASE Closes
  BY ZenonT(60), <1>4, LaneCloses, HubsRest DEF Closes
<1>5. CASE ReadLine
  BY <1>5, LinesRead
<1>6. CASE Proven
  BY <1>6, ProvenKeeps
<1>7. CASE HelperExits
  BY <1>7, ExitSeen
<1>8. CASE Respawn
  BY <1>8, Respawns, HubsRest DEF Respawn
<1>9. CASE Deliver
  BY <1>9, DeliverKeeps, RadioRests DEF Deliver
<1>10. CASE SocketOpens
  BY <1>10, SocketUp, RadioRests DEF SocketOpens
<1>11. CASE Drains
  BY <1>11, SocketWaits, RadioRests DEF Drains
<1>12. CASE Hop
  BY <1>12, HopSteps
<1>13. CASE Restart
  BY <1>13, Restarts
<1>14. CASE SetMode
  BY <1>14, ModeSets
<1>15. CASE Dies
  BY <1>15, HelperDies, HubsRest DEF Dies
<1>16. CASE SocketCloses
  BY <1>16, SocketDown, RadioRests DEF SocketCloses
<1>17. CASE Stalls
  BY <1>17, SocketWaits, RadioRests DEF Stalls
<1>18. CASE Loads
  BY <1>18, PageLoads, RadioRests DEF Loads
<1>19. CASE UNCHANGED playingVars
  BY <1>19, RadioRests, HubsRest DEF playingVars
<1> QED BY <1>1, <1>2, <1>3, <1>4, <1>5, <1>6, <1>7, <1>8, <1>9, <1>10, <1>11, <1>12, <1>13, <1>14, <1>15, <1>16, <1>17, <1>18, <1>19
           DEF PlayingNext, HelperStep, EngineStep, PageStep

\* Once all is heard, the page shows what the slot says, and the slot names the speaker.
LEMMA HeardShows == ASSUME Radio, Hubs, Speech PROVE PageFollowsSpeaker
<1> SUFFICES ASSUME Heard, hub.seen PROVE ShowsSpeaker
  BY DEF PageFollowsSpeaker
<1>1. /\ helper.state = "on" /\ lines = <<>> /\ tunes = <<>> /\ ~engine.unproven
      /\ page.inbox = <<>> /\ ~page.behind
  BY DEF Heard
<1>2. Slot(hub) = helper.speaker
  BY <1>1, LinesEmpty DEF Radio, LinesLead
<1>3. Shown(page, hub)
  BY <1>1, TellingTypes DEF Hubs, PageRight
<1>4. IF page.audibleDriven THEN page.nowPlaying = helper.speaker ELSE helper.speaker = None
  BY <1>2, <1>3 DEF Shown
<1>5. View(page).what = "live" => View(page).ch = page.nowPlaying /\ page.nowPlaying # None
  BY DEF View
<1>6. View(page).what \in {"retuning", "scanning"} => page.nowPlaying = None
  <2>1. ASSUME page.error PROVE View(page).what = "error"
    BY <2>1 DEF View
  <2>2. ASSUME ~page.error, page.nowPlaying # None PROVE View(page).what = "live"
    BY <2>2 DEF View
  <2> QED BY <2>1, <2>2
<1>7. ~page.audibleDriven => ~Loud(page.nowPlaying)
  <2>1. ~SpeakerDue
    BY <1>1, LinesEmpty DEF SpeakerDue
  <2>2. ~ShowsLoud(page)
    BY <1>1, <2>1 DEF Speech
  <2> QED BY <1>1, <2>2, TellingTypes DEF ShowsLoud, NothingTold
<1>8. View(page).what = "live" => \/ View(page).ch = helper.speaker
                                  \/ Untold(page) /\ helper.speaker = None /\ View(page).ch \in Silent
  BY <1>4, <1>5, <1>7 DEF Untold, Loud
<1>9. View(page).what \in {"retuning", "scanning"} => helper.speaker = None
  BY <1>4, <1>6
<1> QED BY <1>8, <1>9 DEF ShowsSpeaker

\* The page follows the speaker, for any windows and channels, however often the helper
\* dies, the mode changes, the page is loaded again and the socket is lost: what it shows as
\* live is what is played, but for a page told nothing yet of the speaker, which while nothing
\* is played may show a channel watched in silence (reduce, reduceEvent, WsHub.broadcast).
THEOREM PageTheorem == PlayingSpec => []PageFollowsSpeaker
<1>1. PlayingInit => Radio /\ Hubs /\ Speech
  BY PlayingStarts
<1>2. (Radio /\ Hubs /\ Speech) /\ [PlayingNext]_playingVars => (Radio /\ Hubs /\ Speech)'
  <2> SUFFICES ASSUME Radio, Hubs, Speech, [PlayingNext]_playingVars PROVE Radio' /\ Hubs' /\ Speech'
    OBVIOUS
  <2> QED BY PlayingSteps, SpeechSteps
<1>3. Radio /\ Hubs /\ Speech => PageFollowsSpeaker
  BY HeardShows
<1> QED BY <1>1, <1>2, <1>3, PTL DEF PlayingSpec

=============================================================================
