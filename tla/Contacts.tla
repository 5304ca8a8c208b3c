------------------------------ MODULE Contacts ------------------------------
(***************************************************************************)
(* A phone's contacts on a computer (desktop/messages_app.go).  Whenever a *)
(* link comes up and whenever the phone says they changed, the computer    *)
(* asks for them and names the version it has; the phone sends another     *)
(* version in parts, none at all when it has no contacts, and the computer *)
(* puts the parts together.  Nothing ties a part to the request it answers.*)
(***************************************************************************)
EXTENDS Integers, Sequences, SequencesExt

CONSTANTS
  Parts,     \* [versions of the contacts -> number of parts, 0 without contacts]
  MaxLinks,  \* bound on links in succession
  MaxSyncs,  \* bound on requests
  MaxStarts  \* bound on restarts of the computer's program

ASSUME ContactsAssumption ==
  /\ Parts \in Seq(Nat) /\ Parts # <<>>
  /\ MaxLinks \in Nat /\ MaxSyncs \in Nat /\ MaxStarts \in Nat

VARIABLES
  version,   \* the phone's contacts
  links,     \* links so far
  usable,    \* links not closed yet: a new one replaces the old one, which
             \*  is read for a moment longer
  syncs,     \* requests so far: [step, link, have, sends, next]
  parts,     \* [links -> packets on their way to the computer]
  incoming,  \* the book being put together
  book,      \* the book in memory, once it was looked at
  saving,    \* [links -> book its reader is about to write to the disk]
  file,      \* contacts.json
  starts     \* restarts so far

cVars == <<version, links, usable, syncs, parts, incoming, book, saving, file, starts>>
bookVars == <<incoming, book, saving, file, starts>>

Versions == DOMAIN Parts
Links    == 1..MaxLinks

(* contactBook: a version, 0 for none, and the parts it was made of. *)
NoBook == [version |-> 0, parts |-> <<>>]
Part   == [version : Versions, part : Nat]
Changed == [version |-> 0, part |-> 0]   \* the packet contacts.changed
IsBook(b) == b.version \in {0} \union Versions /\ \A i \in DOMAIN b.parts : b.parts[i] \in Part

BooksOK ==
  /\ version \in Versions /\ links \in 0..MaxLinks /\ usable \subseteq 1..links
  /\ Len(syncs) <= MaxSyncs /\ starts \in 0..MaxStarts
  /\ \A i \in DOMAIN syncs : syncs[i].step \in {"due", "asked", "sent", "looking", "answering", "over"}
  /\ IsBook(incoming) /\ IsBook(book) /\ IsBook(file)
  /\ \A l \in Links : IsBook(saving[l])

ContactsInit ==
  /\ version = 1 /\ links = 0 /\ usable = {} /\ syncs = <<>>
  /\ parts = [l \in Links |-> <<>>]
  /\ incoming = NoBook /\ book = NoBook /\ file = NoBook
  /\ saving = [l \in Links |-> NoBook] /\ starts = 0

-----------------------------------------------------------------------------
(* The computer asks. *)

Due(l) ==
  IF Len(syncs) < MaxSyncs
  THEN Append(syncs, [step |-> "due", link |-> l, have |-> 0, sends |-> 0, next |-> 0])
  ELSE syncs

(* OnUp: a link comes up, in place of the one before. *)
LinkUp ==
  /\ links < MaxLinks
  /\ links' = links + 1 /\ usable' = usable \union {links + 1}
  /\ syncs' = Due(links + 1)
  /\ UNCHANGED <<version, parts, bookVars>>

CloseOld(l) ==
  /\ l \in usable \ {links}
  /\ usable' = usable \ {l} /\ parts' = [parts EXCEPT ![l] = <<>>]
  /\ UNCHANGED <<version, links, syncs, bookVars>>

(* syncContacts in its goroutine: reads the version, and then asks. *)
ReadVersion(i) ==
  /\ syncs[i].step = "due"
  /\ syncs' = [syncs EXCEPT ![i].step = "asked", ![i].have = book.version]
  /\ UNCHANGED <<version, links, usable, parts, bookVars>>

AskContacts(i) ==
  /\ syncs[i].step = "asked"
  /\ syncs' = [syncs EXCEPT ![i].step = IF syncs[i].link \in usable THEN "sent" ELSE "over"]
  /\ UNCHANGED <<version, links, usable, parts, bookVars>>

-----------------------------------------------------------------------------
(* The phone. *)

(* Its contacts change, and it tells the computer. *)
Change ==
  /\ version + 1 \in Versions
  /\ version' = version + 1
  /\ parts' = [l \in Links |-> IF l \in usable THEN Append(parts[l], Changed) ELSE parts[l]]
  /\ UNCHANGED <<links, usable, syncs, bookVars>>

(* The handler of "contacts" looks them up off the link's reader, which    *)
(* may fail; only another version has parts to send, if it has contacts.   *)
Look(i) ==
  /\ syncs[i].step = "sent"
  /\ \E next \in {"over", "answering"} :
       /\ next = "answering" => version # syncs[i].have /\ Parts[version] # 0
       /\ syncs' = [syncs EXCEPT ![i].step = next, ![i].sends = version]
  /\ UNCHANGED <<version, links, usable, parts, bookVars>>

(* Part after part is sent; another answer's parts come in between. *)
SendPart(i) ==
  LET s == syncs[i] IN
  /\ s.step = "answering"
  /\ parts' = IF s.link \in usable
              THEN [parts EXCEPT ![s.link] = Append(@, [version |-> s.sends, part |-> s.next])]
              ELSE parts
  /\ syncs' = [syncs EXCEPT ![i].next = @ + 1,
                            ![i].step = IF s.link \notin usable \/ s.next + 1 = Parts[s.sends]
                                        THEN "over" ELSE "answering"]
  /\ UNCHANGED <<version, links, usable, bookVars>>

-----------------------------------------------------------------------------
(* The computer reads each link; its handlers run in order. *)

ReadChanged(l) ==
  /\ saving[l] = NoBook
  /\ parts[l] # <<>> /\ Head(parts[l]) = Changed
  /\ parts' = [parts EXCEPT ![l] = Tail(@)]
  /\ syncs' = Due(l)
  /\ UNCHANGED <<version, links, usable, bookVars>>

(* Wrong variant: a part of another version is added as well. *)
Continued_AnyVersion(p) == p.part # 0 /\ incoming # NoBook

(* The incoming book the part goes on with, if any. *)
Continued(p) == p.part # 0 /\ incoming # NoBook /\ incoming.version = p.version

(* onContactsPart *)
ReadPart(l) ==
  LET p  == Head(parts[l])
      in == [version |-> IF Continued(p) THEN incoming.version ELSE p.version,
             parts |-> (IF Continued(p) THEN incoming.parts ELSE <<>>) \o <<p>>]
      done == p.part = Parts[p.version] - 1
  IN
  /\ saving[l] = NoBook
  /\ parts[l] # <<>> /\ p # Changed
  /\ parts' = [parts EXCEPT ![l] = Tail(@)]
  /\ incoming' = IF done THEN NoBook ELSE in
  /\ book' = IF done THEN in ELSE book
  /\ saving' = IF done THEN [saving EXCEPT ![l] = in] ELSE saving
  /\ UNCHANGED <<version, links, usable, syncs, file, starts>>

(* A write that fails leaves the file as it was, or damaged, which reads   *)
(* as no book; nobody is told.                                             *)
SaveBook(l) ==
  /\ saving[l] # NoBook
  /\ file' \in {saving[l], file, NoBook} /\ saving' = [saving EXCEPT ![l] = NoBook]
  /\ UNCHANGED <<version, links, usable, syncs, parts, incoming, book, starts>>

(* The program starts again: what is not on the disk is lost. *)
Restart ==
  /\ starts < MaxStarts
  /\ starts' = starts + 1
  /\ usable' = {} /\ parts' = [l \in Links |-> <<>>]
  /\ syncs' = [i \in DOMAIN syncs |-> [syncs[i] EXCEPT !.step = "over"]]
  /\ incoming' = NoBook /\ book' = file /\ saving' = [l \in Links |-> NoBook]
  /\ UNCHANGED <<version, links, file>>

ContactsNext ==
  \/ LinkUp \/ Change \/ Restart
  \/ \E l \in Links : CloseOld(l) \/ ReadChanged(l) \/ ReadPart(l) \/ SaveBook(l)
  \/ \E i \in DOMAIN syncs : ReadVersion(i) \/ AskContacts(i) \/ Look(i) \/ SendPart(i)

ContactsSpec == ContactsInit /\ [][ContactsNext]_cVars

-----------------------------------------------------------------------------
(* onContactsPart: however the parts of several answers come in, over one  *)
(* link or two, a book in use or on the disk is made of parts of the one   *)
(* version it says it is, its last one at the end; else the phone would    *)
(* take a mixture for its own and never send the contacts again.           *)
BooksUnmixed ==
  \A b \in {book, file} : b # NoBook =>
    /\ \A i \in DOMAIN b.parts : b.parts[i].version = b.version
    /\ Last(b.parts).part = Parts[b.version] - 1
=============================================================================
