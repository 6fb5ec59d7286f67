------------------------------ MODULE LogFlash ------------------------------
(***************************************************************************)
(* The flash log capsule (capsules/src/logging/logging_flash.rs): a log of *)
(* entries on the pages of a flash, linear or circular, with a page buffer *)
(* for appending and a one-page read cache.  Its RAM is the record ram, a  *)
(* method is an operator from such a record to the next one, and an action *)
(* is one entry into the capsule: a call of its client, a deferred call, a *)
(* completion of the flash, or a reset.                                    *)
(*                                                                         *)
(* A page is a sequence of cells, one per unit of four bytes: the header   *)
(* with the entry ID of the page's start, and entries, each a cell with    *)
(* the length followed by one cell per unit of payload.  The payload of an *)
(* entry is its number, the tag.                                           *)
(***************************************************************************)
EXTENDS Integers, FiniteSetsExt

CONSTANTS
  PageSize,     \* units per page
  NumPages,     \* pages of the log
  Circular,     \* whether the log is circular
  Lens,         \* entry lengths a client appends
  ReadLens,     \* buffer lengths a client reads with
  MaxEntries,   \* bound: entries ever appended
  MaxResets,    \* bound: resets
  Faults        \* flash operations that may fail in this instance

\* The two headers; one unit stands for the four bytes of a usize.
PAGE_HEADER_SIZE  == 1
ENTRY_HEADER_SIZE == 1

ASSUME GeometryAssumption ==
  /\ PageSize \in Nat /\ PageSize > PAGE_HEADER_SIZE + ENTRY_HEADER_SIZE
  /\ NumPages \in Nat \ {0}
  /\ Circular \in BOOLEAN
ASSUME ClientAssumption ==
  /\ Lens \subseteq Nat \ {0} /\ ReadLens \subseteq Nat \ {0}
  /\ MaxEntries \in Nat /\ MaxResets \in Nat
  /\ Faults \subseteq {"scan", "walk", "read", "write", "erase"}

VARIABLES
  flash,        \* the pages on flash
  ram,          \* the capsule (see Boot)
  owed,         \* the accepted request the client awaits the answer of
  answer,       \* the last answer to the client
  count,        \* history: number of the last entry given to append
  log,          \* history: the entries appended and not dropped since
  safe,         \* history: the entries of log when a page was last written
  lastRead,     \* history: number of the last entry before the reader's place
  erased,       \* history: number of the last entry when erase last succeeded
  halfErased,   \* history: an erase has failed
  resets        \* resets so far

vars == <<flash, ram, owed, answer, count, log, safe, lastRead, erased, halfErased, resets>>

----------------------------------------------------------------------------
(* Pages.                                                                  *)

NONE       == -1                                  \* no page
PAD        == [len |-> -1, val |-> 0]             \* PAD_BYTE, an erased byte
ZERO       == [len |-> 0,  val |-> 0]
Data(t)    == [len |-> -2, val |-> t]             \* payload of entry t
Header(id) == [len |-> -3, val |-> id]            \* page header

Logicals == 0..(NumPages - 1)
Offsets  == 0..(PageSize - 1)
Volume   == NumPages * PageSize
MaxEntry == PageSize - PAGE_HEADER_SIZE - ENTRY_HEADER_SIZE

Erased    == [i \in Offsets |-> PAD]
Fresh(id) == [i \in Offsets |-> IF i = 0 THEN Header(id) ELSE ZERO]

logical_page_of_pos(pos) == (pos % Volume) \div PageSize

\* A header is valid on the page it names.  An erased header, all ones, is
\* never a multiple of the page size.
ValidHeader(page, p) == page[0].len = Header(0).len /\ page[0].val % Volume = p * PageSize

\* The entry with its length at o fills the cells after it.
WithEntry(page, o, b) ==
  [i \in Offsets |-> IF i = o THEN [len |-> b.len, val |-> b.tag]
                     ELSE IF i \in (o + 1)..(o + b.len) THEN Data(b.tag)
                     ELSE page[i]]

PaddedFrom(page, o) == [i \in Offsets |-> IF i >= o THEN PAD ELSE page[i]]

----------------------------------------------------------------------------
(* The capsule.                                                            *)

NoOp == [op |-> "none"]
NoIO == [op |-> "none", page |-> NONE]

\* Log::new.  req is the client's buffer and length (or the seek's target),
\* pending tells that req is queued.  The append buffer pbuf is with the flash
\* while a write is under way, the read buffer rbuf unless rbHere.
Boot == [state |-> "NotReady", next |-> NONE, walking |-> FALSE,
         recOldest |-> NONE, recNewest |-> 0,
         oldest |-> PAGE_HEADER_SIZE, rd |-> PAGE_HEADER_SIZE,
         app |-> PAGE_HEADER_SIZE, lost |-> FALSE,
         pbuf |-> Fresh(0), pbPage |-> NONE,
         rbuf |-> Fresh(0), rbPage |-> NONE, rbHere |-> TRUE,
         flushing |-> FALSE, err |-> "Ok", got |-> 0,
         req |-> NoOp, pending |-> FALSE, deferred |-> FALSE, io |-> NoIO]

reset_state_empty(l) ==
  [l EXCEPT !.oldest = PAGE_HEADER_SIZE, !.rd = PAGE_HEADER_SIZE,
            !.app = PAGE_HEADER_SIZE, !.lost = FALSE,
            !.pbuf = Fresh(PAGE_HEADER_SIZE), !.pbPage = 0, !.rbPage = NONE]

\* Variant: the deferred call is not set.
Finish_silent(l, err, t) == [l EXCEPT !.err = err, !.got = t]

\* The operation is over but for its callback, which is deferred; got is the
\* number of the entry read.
Finish(l, err, t) == [l EXCEPT !.err = err, !.got = t, !.deferred = TRUE]

start_read_page(l, p) ==
  IF l.rbHere
  THEN [l EXCEPT !.rbHere = FALSE, !.rbPage = NONE, !.io = [op |-> "read", page |-> p]]
  ELSE Finish(l, "RESERVE", 0)

\* Variant: only the page buffer is looked at.
Cached_pagebuffer(l, pos) == logical_page_of_pos(pos) = l.pbPage

\* try_get_bytes: from the page buffer, or else from the read cache.
Cached(l, pos) ==
  LET p == logical_page_of_pos(pos) IN p = l.pbPage \/ (p = l.rbPage /\ l.rbHere)
CellAt(l, pos) ==
  (IF logical_page_of_pos(pos) = l.pbPage THEN l.pbuf ELSE l.rbuf)[pos % PageSize]

\* The length found at pos.  Payload taken for a length may be any g.
LenAt(l, pos, g) == IF CellAt(l, pos).len = Data(0).len THEN g ELSE CellAt(l, pos).len
Garbage == -1..PageSize

\* The number of the entry whose payload is at pos; 0 for other bytes.
PayloadAt(l, pos, len) ==
  LET c == CellAt(l, pos) IN
  IF c.len = Data(0).len /\ \A i \in pos..(pos + len - 1) : CellAt(l, i) = c
  THEN c.val ELSE 0

deliver_current_entry(l, g) ==
  LET len == LenAt(l, l.rd, g)
      pos == l.rd + ENTRY_HEADER_SIZE
  IN IF len = 0 \/ len > MaxEntry THEN Finish(l, "FAIL", 0)
     ELSE IF len > l.req.len THEN Finish(l, "SIZE", 0)
     ELSE IF ~Cached(l, pos) \/ (pos % PageSize) + len > PageSize
     THEN start_read_page(l, logical_page_of_pos(l.rd))
     ELSE Finish([l EXCEPT !.rd = pos + len], "Ok", PayloadAt(l, pos, len))

\* Page headers and padding are skipped up to an entry, a page that is not
\* cached, or the append cursor.  END is reported as FAIL with length 0.
advance_read_pointer_then_deliver(l, g) ==
  LET Places     == {l.rd} \cup {e \in l.rd..(l.app + PageSize) : e % PageSize = PAGE_HEADER_SIZE}
      Skipped(e) == /\ e < l.app
                    /\ \/ e % PageSize = 0
                       \/ Cached(l, e) /\ LenAt(l, e, g) = PAD.len
      m == [l EXCEPT !.rd = CHOOSE e \in Places :
                               ~Skipped(e) /\ \A f \in Places : f < e => Skipped(f)]
  IN IF m.rd >= m.app THEN Finish(m, "END", 0)
     ELSE IF Cached(m, m.rd) THEN deliver_current_entry(m, g)
     ELSE start_read_page(m, logical_page_of_pos(m.rd))

start_seek(l) == Finish([l EXCEPT !.rd = l.req.at, !.state = "Seeking"], "Ok", 0)

\* Variant: the page buffer is labelled with the page of the next entry.
append_to_pagebuffer_next(l) ==
  LET end == l.app + ENTRY_HEADER_SIZE + l.req.len IN
  Finish([l EXCEPT !.pbuf = WithEntry(@, l.app % PageSize, l.req),
                   !.app = end, !.pbPage = logical_page_of_pos(end),
                   !.lost = (l.oldest # PAGE_HEADER_SIZE)], "Ok", 0)

\* The entry goes to the page buffer, where the append cursor is.
append_to_pagebuffer(l) ==
  LET end == l.app + ENTRY_HEADER_SIZE + l.req.len IN
  Finish([l EXCEPT !.pbuf = WithEntry(@, l.app % PageSize, l.req),
                   !.app = end, !.pbPage = logical_page_of_pos(end - 1),
                   !.lost = (l.oldest # PAGE_HEADER_SIZE)], "Ok", 0)

RoundUp(pos) == pos + ((-pos) % PageSize)

\* Variant: the read cache is kept.
LeaveOverwritten_cached(l, padPtr) ==
  LET over   == padPtr - Volume - PageSize
      In(id) == id \div PageSize = over \div PageSize
  IN IF padPtr <= Volume THEN l
     ELSE [l EXCEPT
             !.rd = IF In(@) THEN @ + PageSize + PAGE_HEADER_SIZE - (@ % PageSize) ELSE @,
             !.oldest = IF In(@) THEN @ + PageSize ELSE @]

\* The entries of the page that ends at padPtr one lap later are overwritten:
\* the oldest and the read cursor and the read cache leave that page.
LeaveOverwritten(l, padPtr) ==
  LET over   == padPtr - Volume - PageSize
      In(id) == id \div PageSize = over \div PageSize
  IN IF padPtr <= Volume THEN l
     ELSE [l EXCEPT
             !.rd = IF In(@) THEN @ + PageSize + PAGE_HEADER_SIZE - (@ % PageSize) ELSE @,
             !.oldest = IF In(@) THEN @ + PageSize ELSE @,
             !.rbPage = IF @ = logical_page_of_pos(over) THEN NONE ELSE @]

flush_pagebuffer(l) ==
  LET padPtr == RoundUp(l.app)
      m == IF padPtr = l.app THEN l
           ELSE [l EXCEPT !.pbuf = PaddedFrom(@, l.app % PageSize)]
  IN [LeaveOverwritten(m, padPtr) EXCEPT
        !.io = [op |-> "write", page |-> logical_page_of_pos(padPtr - PageSize)]]

start_append(l) ==
  LET m == [l EXCEPT !.state = "Appending"] IN
  IF l.app % PageSize # 0 /\ ENTRY_HEADER_SIZE + l.req.len <= PageSize - (l.app % PageSize)
  THEN append_to_pagebuffer(m)
  ELSE flush_pagebuffer([m EXCEPT !.flushing = TRUE])

\* A page buffer with nothing but its header is not written.
start_sync(l) ==
  LET m == [l EXCEPT !.state = "Syncing"] IN
  IF l.app % PageSize = PAGE_HEADER_SIZE THEN Finish(m, "Ok", 0) ELSE flush_pagebuffer(m)

erase_oldest_page(l) ==
  LET p == logical_page_of_pos(l.oldest) IN
  [l EXCEPT !.rbPage = IF @ = p THEN NONE ELSE @,
            !.pbPage = IF @ = p THEN NONE ELSE @,
            !.io = [op |-> "erase", page |-> p]]

start_erase(l) ==
  LET m == [l EXCEPT !.state = "Erasing"] IN
  IF l.oldest = l.app /\ ~l.lost THEN Finish(m, "Ok", 0) ELSE erase_oldest_page(m)

\* The early returns of the start_ functions.
Refuses(l, o) ==
  \/ o.op = "read" /\ l.rd > l.app
  \/ o.op = "seek" /\ ~(l.oldest <= o.at /\ o.at <= l.app)
  \/ o.op = "append" /\ \/ o.len > MaxEntry
                        \/ ~Circular /\ l.app + ENTRY_HEADER_SIZE + o.len > Volume

\* A refused read puts the read cursor back to the oldest entry.
AfterRefusal(l, o) == IF o.op = "read" THEN [l EXCEPT !.rd = l.oldest] ELSE l

start(l, o, g) ==
  LET m == [l EXCEPT !.req = o] IN
  CASE o.op = "read"   -> advance_read_pointer_then_deliver([m EXCEPT !.state = "Reading"], g)
    [] o.op = "seek"   -> start_seek(m)
    [] o.op = "append" -> start_append(m)
    [] o.op = "sync"   -> start_sync(m)
    [] o.op = "erase"  -> start_erase(m)

\* The page buffer starts the next page.  (A linear log without one does not
\* get here: start_append has refused.)
reset_pagebuffer(l) ==
  LET id == RoundUp(l.app) IN
  IF ~Circular /\ l.app + PageSize > Volume THEN l
  ELSE [l EXCEPT !.pbuf = Fresh(id), !.app = id + PAGE_HEADER_SIZE,
                 !.pbPage = logical_page_of_pos(id)]

\* Where the entries of a page end.
WalkedLen(page) ==
  LET end[o \in PAGE_HEADER_SIZE..PageSize] ==
        IF o = PageSize \/ page[o].len <= 0 THEN o
        ELSE IF o + ENTRY_HEADER_SIZE + page[o].len > PageSize THEN o
        ELSE end[o + ENTRY_HEADER_SIZE + page[o].len]
  IN end[PAGE_HEADER_SIZE]

\* Variant: the append buffer starts empty instead of with a copy.
WalkLastPage_no_copy(l, page, ok) ==
  LET len == IF ok THEN WalkedLen(page) ELSE PAGE_HEADER_SIZE
      new == l.recNewest
      m   == [l EXCEPT !.oldest = l.recOldest + PAGE_HEADER_SIZE,
                       !.rd = l.recOldest + PAGE_HEADER_SIZE,
                       !.lost = (l.recOldest # 0),
                       !.rbuf = page, !.rbPage = logical_page_of_pos(new)]
  IN IF len < PageSize
     THEN [m EXCEPT !.app = new + len, !.pbuf = Fresh(new), !.pbPage = logical_page_of_pos(new)]
     ELSE [m EXCEPT !.app = new + PageSize + PAGE_HEADER_SIZE, !.pbuf = Fresh(new + PageSize),
                    !.pbPage = logical_page_of_pos(new + PageSize)]

\* The newest page is in the buffer page, if its read succeeded: the cursors
\* are set and the append buffer gets a copy, or starts the page after it.
WalkLastPage(l, page, ok) ==
  LET len == IF ok THEN WalkedLen(page) ELSE PAGE_HEADER_SIZE
      new == l.recNewest
      m   == [l EXCEPT !.oldest = l.recOldest + PAGE_HEADER_SIZE,
                       !.rd = l.recOldest + PAGE_HEADER_SIZE,
                       !.lost = (l.recOldest # 0),
                       !.rbuf = page, !.rbPage = logical_page_of_pos(new)]
  IN IF len < PageSize
     THEN [m EXCEPT !.app = new + len, !.pbuf = page, !.pbPage = logical_page_of_pos(new)]
     ELSE [m EXCEPT !.app = new + PageSize + PAGE_HEADER_SIZE, !.pbuf = Fresh(new + PageSize),
                    !.pbPage = logical_page_of_pos(new + PageSize)]

\* Variant: the last valid page is taken for the newest.
ScanPage_last(l, p, page, ok) ==
  LET id    == page[0].val
      valid == ok /\ ValidHeader(page, p)
  IN [l EXCEPT !.rbuf = page, !.rbPage = IF ok THEN p ELSE NONE, !.rbHere = TRUE,
               !.recOldest = IF valid /\ (@ = NONE \/ id < @) THEN id ELSE @,
               !.recNewest = IF valid THEN id ELSE @,
               !.next = p + 1, !.deferred = TRUE]

\* The page with logical number p has been scanned.
ScanPage(l, p, page, ok) ==
  LET id    == page[0].val
      valid == ok /\ ValidHeader(page, p)
  IN [l EXCEPT !.rbuf = page, !.rbPage = IF ok THEN p ELSE NONE, !.rbHere = TRUE,
               !.recOldest = IF valid /\ (@ = NONE \/ id < @) THEN id ELSE @,
               !.recNewest = IF valid /\ id > @ THEN id ELSE @,
               !.next = p + 1, !.deferred = TRUE]

----------------------------------------------------------------------------
(* Steps.                                                                  *)

NoAnswer == [op |-> "none", err |-> "Ok", tag |-> 0]
PageNo(e) == e.id \div PageSize

\* The capsule becomes l.  Of the entries kept, those that the write under way
\* overwrites are dropped, and an entry that has been appended is added.
Become(l, kept) ==
  LET end == RoundUp(l.app) \div PageSize
      appended == l.state = "Appending" /\ l.deferred
  IN /\ ram' = l
     /\ log' = {e \in kept : ~(l.io.op = "write" /\ PageNo(e) = end - 1 - NumPages)}
               \cup (IF appended
                     THEN {[tag |-> l.req.tag, len |-> l.req.len,
                            id |-> l.app - l.req.len - ENTRY_HEADER_SIZE]}
                     ELSE {})

\* fire_client_callback: the client gets its answer.
Callback(l, kept) ==
  LET ok == l.err = "Ok" IN
  /\ ram' = [l EXCEPT !.state = "Idle", !.flushing = FALSE, !.deferred = FALSE, !.io = NoIO]
  /\ log' = kept
  /\ owed' = NoOp
  /\ answer' = [op |-> owed.op, err |-> l.err, tag |-> l.got]
  /\ lastRead' = CASE owed.op = "read" /\ ok -> l.got
                   [] owed.op = "seek" /\ ok -> owed.before
                   [] OTHER -> lastRead
  /\ erased' = IF owed.op = "erase" /\ ok THEN count ELSE erased
  /\ UNCHANGED <<count, resets>>

Waiting == UNCHANGED <<owed, answer, count, lastRead, erased, resets>>

\* What a client may ask for: seek goes to either end, as the IDs are then.
Requests ==
  [op : {"read"}, len : ReadLens]
  \cup [op : {"append"}, len : Lens, tag : {count + 1}]
  \cup {[op |-> "seek", at |-> ram.oldest, before |-> 0],
        [op |-> "seek", at |-> ram.app, before |-> count],
        [op |-> "sync"], [op |-> "erase"]}

\* read, append, seek, sync and erase.  The first one starts the recovery of
\* the log from flash and is queued; the others find the log idle.
Call(o) ==
  /\ owed = NoOp
  /\ o.op = "append" => count < MaxEntries
  /\ \/ /\ ram.state = "NotReady"
        /\ Become([ram EXCEPT !.state = "Reconstructing", !.next = 0, !.recOldest = NONE,
                              !.recNewest = 0, !.deferred = TRUE,
                              !.req = o, !.pending = TRUE], log)
        /\ owed' = o
        /\ answer' = NoAnswer
     \/ /\ ram.state = "Idle"
        /\ Refuses(ram, o)
        /\ Become(AfterRefusal(ram, o), log)
        /\ answer' = [op |-> o.op, err |-> "refused", tag |-> 0]
        /\ UNCHANGED owed
     \/ /\ ram.state = "Idle"
        /\ ~Refuses(ram, o)
        /\ \E g \in Garbage : Become(start(ram, o, g), log)
        /\ owed' = o
        /\ answer' = NoAnswer
  /\ count' = IF o.op = "append" /\ owed' = o THEN o.tag ELSE count
  /\ UNCHANGED <<flash, safe, lastRead, erased, halfErased, resets>>

\* The log is recovered and the queued request is started.  If it is refused,
\* nobody is told.  The read buffer is put back only after that.
finish_reconstruct(l) ==
  LET m    == [l EXCEPT !.state = "Idle", !.walking = FALSE, !.pending = FALSE]
      kept == {e \in log : m.oldest <= e.id /\ e.id < m.app}
  IN /\ IF Refuses(m, m.req)
        THEN Become([AfterRefusal(m, m.req) EXCEPT !.rbHere = TRUE], kept)
        ELSE \E g \in Garbage : Become([start(m, m.req, g) EXCEPT !.rbHere = TRUE], kept)
     /\ Waiting

drive_reconstruct(l) ==
  \/ /\ l.next < NumPages
     /\ Become(start_read_page(l, l.next), log)
     /\ Waiting
  \/ /\ l.next = NumPages /\ l.recOldest # NONE
     /\ Become(start_read_page([l EXCEPT !.walking = TRUE],
                               logical_page_of_pos(l.recNewest)), log)
     /\ Waiting
  \/ /\ l.next = NumPages /\ l.recOldest = NONE
     /\ finish_reconstruct(reset_state_empty(l))

handle_deferred_call ==
  /\ ram.deferred
  /\ LET l == [ram EXCEPT !.deferred = FALSE]
     IN IF l.state = "Reconstructing" THEN drive_reconstruct(l) ELSE Callback(l, log)
  /\ UNCHANGED <<flash, safe, halfErased>>

\* The flash reports success, or a failure that this instance has.
Reports(ok, kind) == ok \/ kind \in Faults

\* A read that fails leaves the buffer as it was.
read_complete(ok) ==
  /\ ram.io.op = "read"
  /\ LET l    == [ram EXCEPT !.io = NoIO]
         p    == ram.io.page
         page == IF ok THEN flash[p] ELSE ram.rbuf
     IN \/ /\ l.state = "Reconstructing" /\ ~l.walking
           /\ Reports(ok, "scan")
           /\ Become(ScanPage(l, p, page, ok), log)
           /\ Waiting
        \/ /\ l.state = "Reconstructing" /\ l.walking
           /\ Reports(ok, "walk")
           /\ finish_reconstruct(WalkLastPage(l, page, ok))
        \/ /\ l.state = "Reading"
           /\ Reports(ok, "read")
           /\ \E g \in Garbage :
                LET m == [l EXCEPT !.rbuf = page, !.rbHere = TRUE,
                                   !.rbPage = IF ok THEN logical_page_of_pos(l.rd) ELSE NONE]
                IN Become(IF ok THEN advance_read_pointer_then_deliver(m, g)
                          ELSE Finish(m, "FAIL", 0), log)
           /\ Waiting
  /\ UNCHANGED <<flash, safe, halfErased>>

\* An append that waited for the page to be written goes on in the next page;
\* failures and sync are answered at once.
write_complete(ok) ==
  /\ ram.io.op = "write"
  /\ Reports(ok, "write")
  /\ UNCHANGED halfErased
  /\ LET l == [ram EXCEPT !.io = NoIO] IN
     \/ /\ ~ok
        /\ Callback([l EXCEPT !.err = "FAIL", !.got = 0,
                              !.lost = IF l.flushing THEN FALSE ELSE @], log)
        /\ UNCHANGED <<flash, safe>>
     \/ /\ ok
        /\ flash' = [flash EXCEPT ![ram.io.page] = ram.pbuf]
        /\ safe' = log
        /\ \/ /\ l.state = "Appending"
              /\ Become(append_to_pagebuffer([reset_pagebuffer(l) EXCEPT !.flushing = FALSE]), log)
              /\ Waiting
           \/ /\ l.state = "Syncing"
              /\ Callback([IF l.app % PageSize = 0 THEN reset_pagebuffer(l) ELSE l
                           EXCEPT !.err = "Ok", !.got = 0], log)

\* Variant: the erase ends one page too early.
ErasedAll_early(l) == l.oldest + 2 * PageSize >= l.app

\* The page just erased was the last one.
ErasedAll(l) == l.oldest + PageSize >= l.app

\* Pages are erased from the oldest on.
erase_complete(ok) ==
  /\ ram.io.op = "erase"
  /\ Reports(ok, "erase")
  /\ LET l    == [ram EXCEPT !.io = NoIO]
         kept == {e \in log : PageNo(e) # l.oldest \div PageSize}
     IN \/ /\ ~ok
           /\ Callback([l EXCEPT !.err = "FAIL", !.got = 0], log)
           /\ halfErased' = TRUE
           /\ UNCHANGED flash
        \/ /\ ok
           /\ UNCHANGED halfErased
           /\ flash' = [flash EXCEPT ![ram.io.page] = Erased]
           /\ IF ErasedAll(l)
              THEN Callback([reset_state_empty(l) EXCEPT !.err = "Ok", !.got = 0], {})
              ELSE /\ Become(erase_oldest_page([l EXCEPT !.oldest = @ + PageSize]), kept)
                   /\ Waiting
  /\ UNCHANGED safe

\* The device restarts.  What the flash was doing has been done, or not begun.
Reset ==
  /\ resets < MaxResets
  /\ \/ /\ UNCHANGED flash
        /\ log' = log \cap safe
     \/ /\ ram.io.op = "write"
        /\ flash' = [flash EXCEPT ![ram.io.page] = ram.pbuf]
        /\ log' = log
     \/ /\ ram.io.op = "erase"
        /\ flash' = [flash EXCEPT ![ram.io.page] = Erased]
        /\ log' = {e \in log \cap safe : PageNo(e) # ram.oldest \div PageSize}
  /\ safe' = log'
  /\ ram' = Boot
  /\ owed' = NoOp
  /\ answer' = NoAnswer
  /\ lastRead' = 0
  /\ resets' = resets + 1
  /\ UNCHANGED <<count, erased, halfErased>>

Init ==
  /\ flash = [p \in Logicals |-> Erased]
  /\ ram = Boot
  /\ owed = NoOp /\ answer = NoAnswer
  /\ count = 0 /\ lastRead = 0 /\ erased = 0 /\ halfErased = FALSE /\ resets = 0
  /\ log = {} /\ safe = {}

FlashDone(ok) == read_complete(ok) \/ write_complete(ok) \/ erase_complete(ok)

Next ==
  \/ \E o \in Requests : Call(o)
  \/ handle_deferred_call
  \/ \E ok \in BOOLEAN : FlashDone(ok)
  \/ Reset

Spec == Init /\ [][Next]_vars

\* The kernel runs a deferred call that is set, and the flash completes what
\* it is given; nothing is assumed about failures.
FairSpec == Spec /\ WF_vars(handle_deferred_call) /\ WF_vars(FlashDone(TRUE))

----------------------------------------------------------------------------
(* Properties.                                                             *)

States == {"NotReady", "Reconstructing", "Idle", "Reading", "Seeking",
           "Appending", "Syncing", "Erasing"}
Cells  == {PAD, ZERO} \cup {Data(t) : t \in 1..MaxEntries}
          \cup [len : Lens, val : 1..MaxEntries] \cup [len : {Header(0).len}, val : Nat]
Pages  == [Offsets -> Cells]

\* Pages hold well-formed cells and the cursors of the capsule are entry IDs;
\* the flash has at most one operation of the capsule, and then no callback is
\* due; the client waits exactly while the capsule works or has dropped its
\* request.
TypeOK ==
  /\ \A p \in Logicals : flash[p] \in Pages
  /\ ram.pbuf \in Pages /\ ram.rbuf \in Pages
  /\ ram.state \in States
  /\ {ram.oldest, ram.rd, ram.app} \subseteq Nat
  /\ {ram.pbPage, ram.rbPage} \subseteq Logicals \cup {NONE}
  /\ ram.io # NoIO => ~ram.deferred /\ ram.io.page \in Logicals
  /\ ram.state \notin {"NotReady", "Idle"} => owed # NoOp /\ (ram.io # NoIO \/ ram.deferred)
  /\ count \in 0..MaxEntries /\ resets \in 0..MaxResets

Answered(op) == owed.op = op /\ owed' = NoOp /\ answer'.op = op
Unread == {e.tag : e \in {x \in log : x.tag > lastRead}}

\* read (advance_read_pointer_then_deliver, deliver_current_entry): the entries
\* are read in the order they were appended, each once, from the place the
\* reader is at, whether they are in the page buffer, in the read cache or on
\* flash, and the end of the log is reported only after the last of them, until
\* the device is reset.
ReadNext ==
  [][resets = 0 /\ Answered("read") =>
       /\ answer'.err = "Ok" => Unread # {} /\ answer'.tag = Min(Unread)
       /\ answer'.err = "END" => Unread = {}]_vars

\* flush_pagebuffer, erase_oldest_page: what reads take from the read cache
\* (the pages that are not in the page buffer) is what is on flash, until a
\* recovery or an erase that failed.
CacheCoherent ==
  resets = 0 /\ ~halfErased /\ ram.rbHere /\ ram.rbPage \notin {NONE, ram.pbPage} => ram.rbuf = flash[ram.rbPage]

InPage(page, e) ==
  /\ page[e.id % PageSize] = [len |-> e.len, val |-> e.tag]
  /\ \A i \in 1..e.len : page[(e.id + i) % PageSize] = Data(e.tag)
Recovered  == ram.state \notin {"NotReady", "Reconstructing"}
AppendPage == (ram.app - 1) \div PageSize

\* append, flush_pagebuffer and the recovery: every entry that was appended and
\* not overwritten, erased or cut off by a reset is whole and at its entry ID,
\* in the page buffer if that is its page and otherwise on flash, in a page
\* whose header names it (but for the first page of a fresh log).
StoredAtPlace ==
  \A e \in log :
    IF Recovered /\ PageNo(e) = AppendPage
    THEN InPage(ram.pbuf, e)
    ELSE LET page == flash[PageNo(e) % NumPages]
         IN InPage(page, e) /\ (PageNo(e) > 0 => page[0] = Header(PageNo(e) * PageSize))

Recovers == ram.state = "Reconstructing" /\ Recovered'

\* drive_reconstruct, handle_reconstruct_read: after a reset every entry that
\* had been written to flash is again between the oldest and the append cursor,
\* but for those of the first page of a fresh log (whose header reset_state_empty
\* writes in a form that the recovery does not accept).
RecoversWritten ==
  [][Recovers => \A e \in log \ log' : PageNo(e) = 0]_vars

\* erase_complete, erase_oldest_page: once the client has been told that the
\* log is erased, no page that a recovery would take for a page of the log has
\* an entry from before, whatever failed or was cut off by a reset on the way.
ErasedFromFlash ==
  \A p \in Logicals : ValidHeader(flash[p], p) =>
    \A i \in Offsets : flash[p][i].len = Data(0).len => flash[p][i].val > erased

\* The request that waited for the recovery was refused by the recovered log, in
\* an early return of its start_ function, and nobody was told.
RefusedAfterRecovery == ram.state = "Idle" /\ owed # NoOp /\ Refuses(ram, owed)

\* finish_reconstruct, fire_client_callback: an accepted request is answered unless
\* the device is reset.  The one exception is a request that was accepted before
\* the recovery and that the recovered log refuses (too long, no room, a place that
\* is not in the log); a request that the recovered log has started is answered.
AcceptedIsAnswered ==
  /\ (owed # NoOp) ~> (owed = NoOp \/ RefusedAfterRecovery)
  /\ [][Recovered /\ ram.state # "Idle" /\ ram'.state = "Idle" => owed' = NoOp]_vars

=============================================================================
