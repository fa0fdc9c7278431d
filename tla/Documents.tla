----------------------------- MODULE Documents ------------------------------
\* Documents of a matter: their versions, and the doors to them - signing, sharing,
\* folders. Each part has its own variables and its own next-state relation.
EXTENDS Integers, Sequences, FiniteSets

-----------------------------------------------------------------------------
\* A matter's documents: their versions, checkouts, locks, holds and deletion, and
\* the text extracted from each version (src/lib/ops/documents/documents.ts and
\* textSweep.ts, the WebDAV door of src/app/api/dav, the triggers document_guard,
\* document_version_guard and document_head_consistency).
\*
\* Every operation reads the head without a lock, checks it, and writes later: an
\* added version stores its bytes in between.  The triggers look again at the row
\* as it is written.
CONSTANTS Docs, Users,
          Sweepers,     \* the runs of the text sweep in flight at once
          MaxVersions,  \* bound: the versions of a document
          NoOne

Actors == Users \union Sweepers

VARIABLES doc,   \* the heads
          text,  \* the versions of each document in order: who added it, and its text
          open,  \* the matter is not closed
          act    \* what each actor has read

fileVars == <<doc, text, open, act>>

NoDoc == [made |-> FALSE, head |-> 0, holder |-> NoOne, locked |-> FALSE, hold |-> FALSE,
          deleted |-> FALSE, listed |-> FALSE]
Idle == [at |-> "idle", doc |-> NoOne, head |-> 0, mine |-> FALSE]
Texts == {"missing", "none", "embedded", "ocr"}
Version(by, t) == [by |-> by, text |-> t]

FileTypeOK ==
  /\ \A d \in Docs : /\ doc[d].head \in 0..MaxVersions /\ doc[d].holder \in Users \union {NoOne}
                     /\ \A n \in DOMAIN text[d] : text[d][n].text \in Texts
  /\ \A a \in Actors : act[a].doc \in Docs \union {NoOne}

FileInit ==
  /\ doc = [d \in Docs |-> NoDoc] /\ text = [d \in Docs |-> <<>>]
  /\ open = TRUE /\ act = [a \in Actors |-> Idle]

IsIdle(a) == act[a].at = "idle"
Free(a) == act' = [act EXCEPT ![a] = Idle]

\* A staff upload comes with its text; an arrival, an import and a signed copy wait
\* for the sweep.
CreateDocumentWithFile(u, d, t) ==
  /\ IsIdle(u) /\ ~doc[d].made /\ open
  /\ doc' = [doc EXCEPT ![d] = [NoDoc EXCEPT !.made = TRUE, !.head = 1, !.listed = TRUE]]
  /\ text' = [text EXCEPT ![d] = <<Version(u, t)>>]
  /\ UNCHANGED <<open, act>>

\* What is kept of the head read: its number, and whether the reader holds it.
Read(u, d, what) ==
  [at |-> what, doc |-> d, head |-> IF what \in {"add", "ocr"} THEN doc[d].head ELSE 0,
   mine |-> what = "add" /\ doc[d].holder = u]
Reads(u, d, what) ==
  /\ IsIdle(u) /\ doc[d].made /\ act' = [act EXCEPT ![u] = Read(u, d, what)]
  /\ UNCHANGED <<doc, text, open>>

Reachable(u, d) == doc[d].holder \in {NoOne, u}

StartAddVersion(u, d) ==
  open /\ ~doc[d].deleted /\ ~doc[d].locked /\ Reachable(u, d) /\ Reads(u, d, "add")
StartEdit(u, d) == open /\ ~doc[d].locked /\ Reads(u, d, "edit")
StartCheckout(u, d) == open /\ ~doc[d].locked /\ Reachable(u, d) /\ Reads(u, d, "checkout")
StartCheckin(u, d) == doc[d].holder # NoOne /\ Reads(u, d, "checkin")
StartSoftDelete(u, d) ==
  open /\ ~doc[d].deleted /\ ~doc[d].hold /\ ~doc[d].locked /\ Reads(u, d, "delete")
StartRestore(u, d) == doc[d].deleted /\ Reads(u, d, "restore")

\* The WebDAV door, a document opened in place by a desktop editor: its verbs read the
\* document themselves first, and an unlock gives back the caller's own checkout only.
Located(d) == doc[d].made /\ ~doc[d].deleted
DavPut(u, d) == Located(d) /\ StartAddVersion(u, d)
DavLock(u, d) == Located(d) /\ Reachable(u, d) /\ StartCheckout(u, d)
DavUnlock(u, d) == Located(d) /\ doc[d].holder = u /\ StartCheckin(u, d)

\* document_guard: a closed matter's documents are not written, a locked document
\* admits its own flags only.  It looks at the row as it stands when written.
Admits(u, now) == open /\ ~now.locked
AsRead(u, now) == open
DocumentGuard(u, now) == Admits(u, now)

\* document_version_guard and the constraints behind it: the next number, and the
\* document in nobody else's hands after the head was written.
NextNumber(d, n) == n = Len(text[d]) + 1
AnyNumber(d, n) == TRUE
Dense(d, n) == NextNumber(d, n)

\* An added version releases the checkout its author was seen to hold.
AddDocumentVersion(u) ==
  LET d == act[u].doc
      n == act[u].head + 1
      holder == IF act[u].mine THEN NoOne ELSE doc[d].holder
  IN /\ act[u].at = "add" /\ n <= MaxVersions
     /\ DocumentGuard(u, doc[d]) /\ Dense(d, n) /\ holder \in {NoOne, u}
     /\ doc' = [doc EXCEPT ![d].head = n, ![d].holder = holder, ![d].listed = ~doc[d].deleted]
     /\ \E t \in {"embedded", "none"} : text' = [text EXCEPT ![d] = Append(@, Version(u, t))]
     /\ Free(u) /\ UNCHANGED open

EditDocument(u) ==
  LET d == act[u].doc IN
  /\ act[u].at = "edit" /\ DocumentGuard(u, doc[d])
  /\ doc' = [doc EXCEPT ![d].listed = ~doc[d].deleted]
  /\ Free(u) /\ UNCHANGED <<text, open>>

CheckoutDocument(u) ==
  LET d == act[u].doc IN
  /\ act[u].at = "checkout" /\ DocumentGuard(u, doc[d])
  /\ doc' = [doc EXCEPT ![d].holder = u] /\ Free(u) /\ UNCHANGED <<text, open>>

\* The holder's, or anybody's with documents.manage.
CheckinDocument(u) ==
  LET d == act[u].doc IN
  /\ act[u].at = "checkin" /\ DocumentGuard(u, doc[d])
  /\ doc' = [doc EXCEPT ![d].holder = NoOne] /\ Free(u) /\ UNCHANGED <<text, open>>

\* The hold is looked at again as the row is written.
Unheld(now) == ~now.hold
HoldAsRead(now) == TRUE
MayDelete(now) == Unheld(now)

SoftDeleteDocument(u) ==
  LET d == act[u].doc IN
  /\ act[u].at = "delete" /\ DocumentGuard(u, doc[d]) /\ MayDelete(doc[d])
  /\ doc' = [doc EXCEPT ![d].deleted = TRUE, ![d].listed = FALSE]
  /\ Free(u) /\ UNCHANGED <<text, open>>

RestoreDocument(u) ==
  LET d == act[u].doc IN
  /\ act[u].at = "restore" /\ DocumentGuard(u, doc[d])
  /\ doc' = [doc EXCEPT ![d].deleted = FALSE, ![d].listed = TRUE]
  /\ Free(u) /\ UNCHANGED <<text, open>>

\* The two flags a locked document still admits; a closed matter's does not.
SetDocumentLock(d) ==
  /\ doc[d].made /\ open /\ doc' = [doc EXCEPT ![d].locked = ~@]
  /\ UNCHANGED <<text, open, act>>
SetLegalHold(d) ==
  /\ doc[d].made /\ open /\ doc' = [doc EXCEPT ![d].hold = ~@]
  /\ UNCHANGED <<text, open, act>>

\* Text recognised in the reader's browser, for the head's version; its index row is
\* written from the head as read, the head not locked.
StartOcr(u, d) == open /\ ~doc[d].deleted /\ Reads(u, d, "ocr")
RecordOcrText(u) ==
  LET d == act[u].doc IN
  /\ act[u].at = "ocr"
  /\ text' = [text EXCEPT ![d][act[u].head].text = "ocr"]
  /\ doc' = [doc EXCEPT ![d].listed = TRUE]
  /\ Free(u) /\ UNCHANGED open

\* The sweep takes the oldest version without text, its fetch and extraction outside
\* any transaction, and writes what it found: text, or none for what cannot be read.
Textless == {<<d, n>> \in Docs \X (1..MaxVersions) : n \in DOMAIN text[d] /\ text[d][n].text = "missing"}
StartSweep(a) ==
  \E d \in Docs :
    /\ <<d, 1>> \in Textless /\ IsIdle(a)
    /\ act' = [act EXCEPT ![a] = [Idle EXCEPT !.at = "sweep", !.doc = d]]
    /\ UNCHANGED <<doc, text, open>>

Fetched == {"embedded", "none"}
Unread == {"embedded", "none", "missing"}
Extracted == Fetched

RunDocumentTextSweep(a) ==
  LET d == act[a].doc IN
  /\ act[a].at = "sweep"
  /\ \E t \in Extracted : text' = [text EXCEPT ![d][1].text = t]
  /\ doc' = [doc EXCEPT ![d].listed = ~doc[d].deleted]
  /\ Free(a) /\ UNCHANGED open

\* The matter is closed, and reopened; a request is refused, or lost.
MatterMoves == open' = ~open /\ UNCHANGED <<doc, text, act>>
Abort(a) == ~IsIdle(a) /\ Free(a) /\ UNCHANGED <<doc, text, open>>

FileNext ==
  \/ MatterMoves
  \/ \E d \in Docs : SetDocumentLock(d) \/ SetLegalHold(d)
  \/ \E u \in Users, d \in Docs :
       \/ \E t \in {"embedded", "none", "missing"} : CreateDocumentWithFile(u, d, t)
       \/ StartAddVersion(u, d) \/ StartEdit(u, d) \/ StartCheckout(u, d) \/ StartCheckin(u, d)
       \/ StartSoftDelete(u, d) \/ StartRestore(u, d) \/ StartOcr(u, d)
       \/ DavPut(u, d) \/ DavLock(u, d) \/ DavUnlock(u, d)
  \/ \E u \in Users :
       \/ AddDocumentVersion(u) \/ EditDocument(u) \/ CheckoutDocument(u) \/ CheckinDocument(u)
       \/ SoftDeleteDocument(u) \/ RestoreDocument(u) \/ RecordOcrText(u)
  \/ \E a \in Sweepers : StartSweep(a) \/ RunDocumentTextSweep(a)
  \/ \E a \in Actors : Abort(a)

FileSpec == FileInit /\ [][FileNext]_fileVars

\* The sweep is scheduled again and again, and what it writes commits: nothing in it
\* depends on what anybody else does.
FileFairSpec ==
  FileSpec /\ \A a \in Sweepers : WF_fileVars(StartSweep(a)) /\ SF_fileVars(RunDocumentTextSweep(a))

\* The head carries the newest version: two people adding to the head they both read
\* do not lose one another's version.
HeadIsNewest == \A d \in Docs : doc[d].head = Len(text[d])

\* What a lock freezes stays as it is from one moment of the lock to the next,
\* whatever was read before the lock was set; a document held is not deleted.
Protects ==
  \A d \in Docs :
    /\ doc[d].locked /\ doc'[d].locked =>
         /\ doc'[d].head = doc[d].head /\ doc'[d].holder = doc[d].holder
         /\ doc'[d].deleted = doc[d].deleted
    /\ doc[d].hold => (doc'[d].deleted => doc[d].deleted)
ProtectedStands == [][Protects]_fileVars

\* Not kept: a version is added by whoever has the document checked out, or when
\* nobody has.  A checkout taken after the look stops nobody.
HolderAddsVersions ==
  [][\A d \in Docs : Len(text'[d]) > Len(text[d]) /\ doc[d].holder # NoOne
                       => text'[d][Len(text'[d])].by = doc[d].holder]_fileVars

\* Every version has its text in the end, read or recorded as unreadable.
TextArrives == \A d \in Docs : <<d, 1>> \in Textless ~> <<d, 1>> \notin Textless

-----------------------------------------------------------------------------
\* What leaves a matter's documents and how they are kept: shares served by a link,
\* requests signed through a public page, and the folders of the matter
\* (src/lib/ops/documents/sharing.ts, signing.ts, folders.ts, the triggers
\* signing_request_guard, document_folder_guard and document_folder_delete_guard).
\*
\* A serve reads its share and then spends a view; a revocation reads a request
\* without a lock; a folder's move walks up the tree and then writes one row, and
\* commits only after its entry in the register.
CONSTANTS Requests, Shares, Folders, Doorkeepers,
          MaxViews,   \* the budget of a share
          MaxServes,  \* bound: the times a share is served
          Nobody

VARIABLES request,  \* each signing request, with the signed copies made for it
          share,    \* each share, with the views on its access log
          parent,   \* the parent of each folder, the root, or none: not made
          visit       \* what each actor has read

doorVars == <<request, share, parent, visit>>

Root == "root"
NotMade == "none"
AtRest == [at |-> "idle", on |-> Nobody, to |-> Nobody]

DoorTypeOK ==
  /\ \A r \in Requests : request[r].status \in {"none", "pending", "signed", "revoked"} /\ request[r].copies \in Nat
  /\ \A s \in Shares : share[s].views \in 0..MaxServes /\ share[s].logged \in 0..MaxServes
  /\ \A f \in Folders : parent[f] \in Folders \union {Root, NotMade}

DoorInit ==
  /\ request = [r \in Requests |-> [status |-> "none", expired |-> FALSE, copies |-> 0]]
  /\ share = [s \in Shares |-> [made |-> FALSE, expired |-> FALSE, revoked |-> FALSE, views |-> 0, logged |-> 0]]
  /\ parent = [f \in Folders |-> NotMade]
  /\ visit = [a \in Doorkeepers |-> AtRest]

IsAtRest(a) == visit[a].at = "idle"
DoorFree(a) == visit' = [visit EXCEPT ![a] = AtRest]
Starts(a, what, on, to) == IsAtRest(a) /\ visit' = [visit EXCEPT ![a] = [at |-> what, on |-> on, to |-> to]]

\* No completion holds the request's row.
RequestFree(r) == \A a \in Doorkeepers : ~(visit[a].at = "sign" /\ visit[a].on = r)

CreateSigningRequest(r) ==
  /\ request[r].status = "none" /\ request' = [request EXCEPT ![r].status = "pending"]
  /\ UNCHANGED <<share, parent, visit>>

Expire ==
  \/ \E r \in Requests : request[r].status = "pending" /\ request' = [request EXCEPT ![r].expired = TRUE] /\ UNCHANGED share
  \/ \E s \in Shares : share[s].made /\ share' = [share EXCEPT ![s].expired = TRUE] /\ UNCHANGED request

\* A completion locks the request; it stamps and stores the bytes, and then makes the
\* signed copy and settles the request.
StartSigning(a, r) ==
  /\ request[r].status = "pending" /\ ~request[r].expired /\ RequestFree(r)
  /\ Starts(a, "sign", r, Nobody) /\ UNCHANGED <<request, share, parent>>

\* signing_request_guard: a settled request does not change again.
StillPending(r) == request[r].status = "pending"
PendingAsRead(r) == TRUE
MaySettle(r) == StillPending(r)

CompleteSigning(a) ==
  LET r == visit[a].on IN
  /\ visit[a].at = "sign" /\ MaySettle(r)
  /\ request' = [request EXCEPT ![r].status = "signed", ![r].copies = @ + 1]
  /\ DoorFree(a) /\ UNCHANGED <<share, parent>>

StartRevokeRequest(a, r) ==
  request[r].status = "pending" /\ Starts(a, "revoke", r, Nobody) /\ UNCHANGED <<request, share, parent>>
RevokeSigningRequest(a) ==
  LET r == visit[a].on IN
  /\ visit[a].at = "revoke" /\ RequestFree(r) /\ MaySettle(r)
  /\ request' = [request EXCEPT ![r].status = "revoked"] /\ DoorFree(a) /\ UNCHANGED <<share, parent>>

CreateDocumentShare(s) ==
  /\ ~share[s].made /\ share' = [share EXCEPT ![s].made = TRUE] /\ UNCHANGED <<request, parent, visit>>
RevokeDocumentShare(s) ==
  /\ share[s].made /\ ~share[s].revoked /\ share' = [share EXCEPT ![s].revoked = TRUE]
  /\ UNCHANGED <<request, parent, visit>>

\* The share is read whole, the view spent later: two serves may both find the last.
StartServe(a, s) ==
  /\ share[s].made /\ ~share[s].revoked /\ ~share[s].expired /\ share[s].views < MaxViews
  /\ Starts(a, "serve", s, share[s].views) /\ UNCHANGED <<request, share, parent>>

\* A view is added to the row as it stands.
AddedTo(a, s) == share[s].views + 1
AddedToRead(a, s) == visit[a].to + 1
Spent(a, s) == AddedTo(a, s)
ResolveShareForServe(a) ==
  LET s == visit[a].on IN
  /\ visit[a].at = "serve" /\ share[s].logged < MaxServes
  /\ share' = [share EXCEPT ![s].views = Spent(a, s), ![s].logged = @ + 1]
  /\ DoorFree(a) /\ UNCHANGED <<request, parent>>

Made(f) == f = Root \/ (f \in Folders /\ parent[f] # NotMade)

\* The folders met walking up from f.
Above(f) ==
  LET climb[n \in 0..Cardinality(Folders)] ==
        IF n = 0 THEN {f} ELSE climb[n - 1] \union {parent[g] : g \in climb[n - 1] \ {Root, NotMade}}
  IN climb[Cardinality(Folders)]

CreateFolder(f, p) ==
  /\ parent[f] = NotMade /\ Made(p) /\ parent' = [parent EXCEPT ![f] = p] /\ UNCHANGED <<request, share, visit>>
StartMove(a, f, p) ==
  /\ f # p /\ parent[f] # NotMade /\ Made(p) /\ f \notin Above(p) /\ parent[f] # p
  /\ \A b \in Doorkeepers : ~(visit[b].at = "move" /\ visit[b].on = f)
  /\ Starts(a, "move", f, p) /\ UNCHANGED <<request, share, parent>>
\* The parent row cannot have been deleted: the reference holds it.
MoveFolder(a) ==
  /\ visit[a].at = "move" /\ parent' = [parent EXCEPT ![visit[a].on] = visit[a].to]
  /\ DoorFree(a) /\ UNCHANGED <<request, share>>

\* Nothing is in it, and nothing is being moved into it.
Unreferenced(f) ==
  /\ \A g \in Folders : parent[g] # f
  /\ \A a \in Doorkeepers : visit[a].at = "move" => visit[a].on # f /\ visit[a].to # f
EmptyWhenRead(f) == \A g \in Folders : parent[g] # f
IsEmpty(f) == Unreferenced(f)
DeleteEmptyFolder(f) ==
  /\ parent[f] # NotMade /\ IsEmpty(f) /\ parent' = [parent EXCEPT ![f] = NotMade] /\ UNCHANGED <<request, share, visit>>

AbortDoor(a) == ~IsAtRest(a) /\ DoorFree(a) /\ UNCHANGED <<request, share, parent>>

DoorNext ==
  \/ Expire /\ UNCHANGED <<parent, visit>>
  \/ \E r \in Requests : CreateSigningRequest(r)
  \/ \E s \in Shares : CreateDocumentShare(s) \/ RevokeDocumentShare(s)
  \/ \E f \in Folders : DeleteEmptyFolder(f) \/ (\E p \in Folders \union {Root} : CreateFolder(f, p))
  \/ \E a \in Doorkeepers :
       \/ CompleteSigning(a) \/ RevokeSigningRequest(a) \/ ResolveShareForServe(a) \/ MoveFolder(a) \/ AbortDoor(a)
       \/ \E r \in Requests : StartSigning(a, r) \/ StartRevokeRequest(a, r)
       \/ \E s \in Shares : StartServe(a, s)
       \/ \E f \in Folders, p \in Folders \union {Root} : StartMove(a, f, p)

DoorSpec == DoorInit /\ [][DoorNext]_doorVars

\* A request yields its one signed copy or none: completions and revocations that all
\* read it pending do not both settle it.
SignedOnce ==
  \A r \in Requests : request[r].copies = (IF request[r].status = "signed" THEN 1 ELSE 0)

\* Every view on the access log was spent from the share, two serves at once count two, and
\* past its budget go only serves that found a view left at the same time.
ServesCounted ==
  \A s \in Shares : /\ share[s].views = share[s].logged
                    /\ share[s].logged <= MaxViews - 1 + Cardinality(Doorkeepers)

\* The parent of a folder exists, whatever is deleted while the folder is moved.
ParentsExist == \A f \in Folders : parent[f] # NotMade => Made(parent[f])

\* Not kept: no folder sits inside itself, however deep.  Two moves at once each
\* find the other folder outside (0030:45).
NoCycles == \A f \in Folders : parent[f] \in Folders => f \notin Above(parent[f])
=============================================================================
