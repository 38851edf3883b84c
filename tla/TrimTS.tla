------------------------------- MODULE TrimTS -------------------------------
(***************************************************************************)
(* TrimTSFile (10.TrimTSFile/mainwindow.cpp), a window that takes the      *)
(* messages without a location out of a translation file and lets the user *)
(* recall their translations for the messages that stay.  On the left it   *)
(* shows the messages that go, on the right those that stay, and beside    *)
(* what it shows it keeps the document that it will save.                  *)
(*                                                                         *)
(* A document has its messages at positions, from 1, in their order; what  *)
(* is made of it keeps the positions.  A message knows the number and the  *)
(* name of its context.  Its translation is << >> when the element has no  *)
(* text at all, and << t >> for the text t, which may be "" in memory.     *)
(***************************************************************************)
EXTENDS Integers, Sequences, FiniteSets

CONSTANTS FileNames,
          Positions,  \* of messages in a file
          Strings,    \* the names, sources and texts, the empty one among them
          Unreadable, \* what a file that cannot be read, or be understood, holds
          Disks,      \* what there may be on the disk
          MaxMods,    \* bound: how often ".mod.ts" is added to the name of a file
          MaxRecalls  \* bound: the rows recalled from one file

VARIABLES
  disk,       \* the files
  url,        \* the name in url_linedit, or << >>
  repeat,     \* the rows of repeat_treewidget: << context, source, text >>
  output,     \* the rows of output_treewidget
  current,    \* the current row of repeat_treewidget: None, Other for one that
              \* is not a message
  output_doc,
  todo,       \* the rows that recalling all has still before it
  loaded,     \* the document that output_doc was made of
  recalled    \* the rows that were recalled since

trimVars == << disk, url, repeat, output, current, output_doc, todo, loaded, recalled >>

Urls == FileNames \X (0..MaxMods)
Translations == {<< >>} \union {<< t >> : t \in Strings}
Message ==
  [ context : Nat, name : Strings, source : Strings, located : BOOLEAN, translation : Translations ]

HasTexts(doc) == \A k \in DOMAIN doc : doc[k].translation = << >> \/ doc[k].translation[1] # ""
IsDocument(doc) == \E S \in SUBSET Positions : doc \in [S -> Message]

\* A file that can be read has a document without empty texts: such an element
\* is read as one that has no text
IsFile(doc) ==
  doc # Unreadable =>
    /\ IsDocument(doc)
    /\ HasTexts(doc)

ASSUME TrimAssumption ==
  /\ Positions \subseteq Nat \ {0} /\ MaxMods \in Nat /\ "" \in Strings
  /\ ~IsDocument(Unreadable)
  /\ \A d \in Disks : d \in [Urls -> {d[u] : u \in Urls}] /\ \A u \in Urls : IsFile(d[u])

NoDoc == Unreadable
None == 0
Other == -1

TrimInit ==
  /\ disk \in Disks
  /\ url = << >> /\ repeat = << >> /\ output = << >> /\ current = None /\ todo = {}
  /\ output_doc = NoDoc /\ loaded = NoDoc /\ recalled = << >>

Text(t) == IF t = << >> THEN "" ELSE t[1]

Located(doc, located) == {k \in DOMAIN doc : doc[k].located = located}
Row(m) == << m.name, m.source, Text(m.translation) >>
Rows(doc, located) == [k \in Located(doc, located) |-> Row(doc[k])]
Trimmed(doc) == [k \in Located(doc, TRUE) |-> doc[k]]

-----------------------------------------------------------------------------
(* Choosing a file: prepareRepeatXml and prepareOutputXml *)

\* The trees are cleared first; the document is replaced only when there is a
\* new one
Choose(name) ==
  /\ todo = {}
  /\ url' = name /\ current' = None
  /\ IF disk[name] = Unreadable
     THEN /\ repeat' = << >> /\ output' = << >>
          /\ UNCHANGED << output_doc, loaded, recalled >>
     ELSE /\ repeat' = Rows(disk[name], FALSE)
          /\ output' = Rows(disk[name], TRUE)
          /\ output_doc' = Trimmed(disk[name])
          /\ loaded' = disk[name] /\ recalled' = << >>
  /\ UNCHANGED << disk, todo >>

\* The user clicks into the left tree: on a message or on another row
Click(row) ==
  /\ todo = {} /\ repeat # << >> /\ current' = row
  /\ UNCHANGED << disk, url, repeat, output, output_doc, todo, loaded, recalled >>

-----------------------------------------------------------------------------
(* Recalling: recallItemTranslation with the selection on the right *)

SameKey(row, other) == row[1] = other[1] /\ row[2] = other[2]

First(k, S) == k \in S /\ \A n \in S : k <= n

\* Slip: the contexts are not compared
ShownAnyContext(rows, row) ==
  LET fit == {k \in DOMAIN rows : rows[k][2] = row[2] /\ rows[k][3] # ""}
  IN  [k \in DOMAIN rows |-> IF First(k, fit) THEN [rows[k] EXCEPT ![3] = row[3]] ELSE rows[k]]

\* The first row on the right of the same context and source that shows a
\* translation gets the text, which makes it the row that is recalled
Shown(rows, row) ==
  LET fit == {k \in DOMAIN rows : SameKey(rows[k], row) /\ rows[k][3] # ""}
  IN  [k \in DOMAIN rows |-> IF First(k, fit) THEN row ELSE rows[k]]

\* The translation has a text to be replaced
Fits(m, row) == SameKey(Row(m), row) /\ m.translation # << >>

\* Slip: the search ends with the first context of that name
WrittenFirst(doc, row) ==
  LET fit == {doc[k].context : k \in {j \in DOMAIN doc : doc[j].name = row[1]}}
  IN  [k \in DOMAIN doc |->
         IF Fits(doc[k], row) /\ \A c \in fit : doc[k].context <= c
         THEN [doc[k] EXCEPT !.translation = << row[3] >>] ELSE doc[k]]

\* In the document every message of that context and source gets it
Written(doc, row) ==
  [k \in DOMAIN doc |-> IF Fits(doc[k], row) THEN [doc[k] EXCEPT !.translation = << row[3] >>] ELSE doc[k]]

RecallRow(k) ==
  /\ current' = k
  /\ output' = Shown(output, repeat[k])
  /\ output_doc' = IF output_doc = NoDoc THEN NoDoc ELSE Written(output_doc, repeat[k])
  /\ recalled' = Append(recalled, repeat[k])
  /\ UNCHANGED << disk, url, repeat, loaded >>

\* A row that is not a message has no like on the right and in the document
Recall ==
  /\ todo = {} /\ current \in DOMAIN repeat
  /\ Len(recalled) < MaxRecalls
  /\ RecallRow(current) /\ UNCHANGED todo

\* All of them, only while none is current, one after the other; the last one is
\* current afterwards
RecallAll ==
  /\ todo = {} /\ current = None /\ repeat # << >>
  /\ Len(recalled) + Cardinality(DOMAIN repeat) <= MaxRecalls
  /\ todo' = DOMAIN repeat
  /\ UNCHANGED << disk, url, repeat, output, current, output_doc, loaded, recalled >>

RecallNext ==
  \E k \in todo :
    /\ \A j \in todo : k <= j
    /\ RecallRow(k) /\ todo' = todo \ {k}

-----------------------------------------------------------------------------
(* Saving *)

\* An element whose text is empty has none when it is read again; without a
\* document nothing is written into the new file
AsFile(doc) ==
  IF doc = NoDoc THEN Unreadable ELSE
  [k \in DOMAIN doc |-> IF doc[k].translation = << "" >> THEN [doc[k] EXCEPT !.translation = << >>] ELSE doc[k]]

Save ==
  /\ todo = {} /\ url # << >> /\ url[2] < MaxMods
  /\ disk' = [disk EXCEPT ![<< url[1], url[2] + 1 >>] = AsFile(output_doc)]
  /\ UNCHANGED << url, repeat, output, current, output_doc, todo, loaded, recalled >>

TrimNext ==
  \/ \E name \in Urls : Choose(name)
  \/ \E row \in DOMAIN repeat \union {Other} : Click(row)
  \/ Recall \/ RecallAll \/ RecallNext \/ Save

TrimSpec == TrimInit /\ [][TrimNext]_trimVars

-----------------------------------------------------------------------------
(* Properties *)

\* "Messages without a location go": the document to be saved has the located
\* messages of the file in their places, each with its own translation, or, when
\* it has one and others of its context and source were recalled, with the last
\* of those (mainwindow.cpp:270-313, :571-580).
Came(m, rows) == {k \in DOMAIN rows : SameKey(rows[k], Row(m))}

ToSave(m, rows, now) ==
  IF m.translation = << >> \/ Came(m, rows) = {} THEN now = m
  ELSE \E c \in Came(m, rows) :
         /\ \A n \in Came(m, rows) : n <= c
         /\ now = [m EXCEPT !.translation = << rows[c][3] >>]

RecalledExact ==
  IF loaded = NoDoc THEN output_doc = NoDoc
  ELSE /\ DOMAIN output_doc = Located(loaded, TRUE)
       /\ \A k \in DOMAIN output_doc : ToSave(loaded[k], recalled, output_doc[k])

AllTexts == \A k \in DOMAIN recalled : recalled[k][3] # ""

\* What the right-hand tree shows is what would be saved, as long as no message
\* comes twice and none is recalled that has no translation itself: tree and
\* document are searched in different ways (mainwindow.cpp:207-223, :283-313).
ShownIsSaved ==
  /\ url # << >> /\ disk[url] # Unreadable
  /\ \A j, k \in DOMAIN output : j # k => ~SameKey(output[j], output[k])
  /\ AllTexts
  => output = Rows(output_doc, TRUE)

\* The inductive invariant behind the two: what the window holds, and that the
\* document has empty texts only when some were recalled
TreeRow == Strings \X Strings \X Strings

WindowOk ==
  /\ disk \in [Urls -> {disk[u] : u \in Urls}] /\ \A u \in Urls : IsFile(disk[u])
  /\ url \in Urls \union {<< >>}
  /\ repeat \in [DOMAIN repeat -> TreeRow] /\ output \in [DOMAIN output -> TreeRow]
  /\ recalled \in Seq(TreeRow)
  /\ todo \subseteq DOMAIN repeat

DocsOk ==
  /\ IsFile(loaded)
  /\ IF loaded = NoDoc THEN output_doc = NoDoc ELSE IsDocument(output_doc)
  /\ url # << >> /\ disk[url] # Unreadable => loaded # NoDoc

NoBlanks == loaded # NoDoc /\ AllTexts => HasTexts(output_doc)

TrimInv == WindowOk /\ DocsOk /\ NoBlanks /\ RecalledExact /\ ShownIsSaved
=============================================================================
