---------------------------------- MODULE Card ---------------------------------
(***************************************************************************)
(* Catching up with what a camera holds: the paged listings of its card       *)
(* (backend/internal/camera/recordings.go) and the puller that walks them      *)
(* (backend/internal/manager/pull.go), while the camera goes on recording and  *)
(* deletes the oldest to keep the card free.                                *)
(*                                                                         *)
(* A listing is an offset into what the card holds at that moment, so a pass   *)
(* reads pages of different cards.  What one Save does on the disk is the      *)
(* Archive module's; here a recording is held or it is not.                  *)
(***************************************************************************)
EXTENDS Integers, FiniteSetsExt, Functions

CONSTANTS Total,        \* bound: what the camera ever records, numbered in time order
          AtFirst,      \* what is on the card when the service starts
          DirOf,        \* the directory a recording is in; numbers sort as the names do
          Undated,      \* the directories numbered before the clock was set
          OddAt,        \* recordings whose start time cannot be stored
          DirListedAt,  \* where in the camera's list of directories one comes
          ListedAt,     \* where in its directory's summary file a recording comes
          DirsPerPage, RecsPerPage, MaxDayPages,
          MaxPullFaults, MaxDeleted    \* bounds

Recs == 1..Total
Dirs == {DirOf[r] : r \in Recs}

ASSUME CardAssumption ==
  /\ {Total, DirsPerPage, RecsPerPage, MaxDayPages} \subseteq Nat \ {0}
  /\ {AtFirst, MaxPullFaults, MaxDeleted} \subseteq Nat /\ AtFirst <= Total
  /\ DirOf \in [Recs -> Nat] /\ Undated \subseteq Dirs /\ OddAt \subseteq Recs
  /\ DirListedAt \in [Dirs -> Nat] /\ IsInjective(DirListedAt)
  /\ ListedAt \in [Recs -> Nat] /\ IsInjective(ListedAt)

VARIABLES
  made, card, deleted,  \* recorded so far, what is left of it, how many are gone
  listing,              \* whether this firmware has the listings
  online, pullFaults,
  pullPc, page, start,  \* where the pass is, and the page it asks for
  days, held, recs, size, more, \* how often each day is to be walked; names read of this
                        \* one; the page in hand
  archive, pullError,   \* what is held, and what the status says of the last pass
  overlap,              \* whether the device that this one replaced still runs
  owed, late            \* ghosts: what this pass has still to look at; what that device
                        \* has stored since this one last asked the archive

world == <<made, card, deleted, listing, online>>
older == <<overlap, late>>
pass  == <<page, start, days, held, recs, size, more>>
pullVars == <<world, pullFaults, pullPc, pass, archive, pullError, owed, older>>

Storable == {r \in Recs : DirOf[r] \notin Undated /\ r \notin OddAt}
Dated(d) == d \notin Undated

(* The days to go, sorted (pull.go:104): the oldest is next.  A day is to be    *)
(* walked as often as it was listed.                                         *)
NoDays   == [d \in Dirs |-> 0]
DaysToGo == {d \in Dirs : days[d] > 0}
Day      == Min(DaysToGo)
With(got) == days' = [d \in Dirs |-> IF d \in got THEN days[d] + 1 ELSE days[d]]
DayOver  == days' = [days EXCEPT ![Day] = @ - 1]

PullTypeOK ==
  /\ made \in 0..Total /\ card \subseteq 1..made /\ deleted \in 0..MaxDeleted
  /\ listing \in BOOLEAN /\ online \in BOOLEAN /\ pullFaults \in 0..MaxPullFaults
  /\ pullPc \in {"idle", "days", "day", "list", "get"}
  /\ page \in 0..MaxDayPages /\ start \in Nat
  /\ days \in [Dirs -> Nat] /\ DaysToGo \cap Undated = {}
  /\ recs \subseteq 1..made /\ \A r \in recs : DirOf[r] = Day
  /\ size \in 0..RecsPerPage /\ Cardinality(recs) <= size
  /\ held \subseteq archive /\ more \in BOOLEAN
  /\ archive \subseteq Storable /\ owed \subseteq 1..made
  /\ pullError \in {"none", "failed", "noListing"}
  /\ overlap \in BOOLEAN /\ late \subseteq archive

PullInit ==
  /\ made = AtFirst /\ card = 1..AtFirst /\ deleted = 0
  /\ listing \in BOOLEAN /\ online = FALSE /\ pullFaults = 0
  /\ pullPc = "idle" /\ page = 0 /\ start = 0
  /\ days = NoDays /\ held = {} /\ recs = {} /\ size = 0 /\ more = FALSE
  /\ archive = {} /\ pullError = "none" /\ owed = {} /\ overlap = FALSE /\ late = {}

-----------------------------------------------------------------------------
(* The camera.  Both listings answer for the card as it is when they are asked. *)

DaysListing     == {DirOf[r] : r \in card}
DayListing(day) == {r \in card : DirOf[r] = day}

(* What is listed has its place, and a page is what lies between two.        *)
UpTo(x, all, at)         == {y \in all : at[y] <= at[x]}
Place(x, all, at)        == Cardinality(UpTo(x, all, at))
OnPage(all, at, from, n) == {x \in all : Place(x, all, at) \in from + 1 .. from + n}
Rest(all, from, n)       == from + n < Cardinality(all)

Records ==
  /\ made < Total /\ made' = made + 1 /\ card' = card \cup {made'}
  /\ UNCHANGED <<deleted, listing, online, pullFaults, pullPc, pass, archive, pullError, owed, older>>

(* Its housekeeping deletes the oldest.  What moves up a place may not be seen. *)
Deletes ==
  /\ card # {} /\ deleted < MaxDeleted /\ deleted' = deleted + 1
  /\ card' = card \ {Min(card)} /\ owed' = {}
  /\ UNCHANGED <<made, listing, online, pullFaults, pullPc, pass, archive, pullError, older>>

Updated ==
  /\ ~listing /\ listing' = TRUE
  /\ UNCHANGED <<made, card, deleted, online, pullFaults, pullPc, pass, archive, pullError, owed, older>>

(* What the poll last said. *)
Polled ==
  /\ online' = ~online
  /\ pullFaults' = IF online THEN pullFaults + 1 ELSE pullFaults
  /\ pullFaults' <= MaxPullFaults
  /\ UNCHANGED <<made, card, deleted, listing, pullPc, pass, archive, pullError, owed, older>>

-----------------------------------------------------------------------------
(* One pass *)

Exchange == listing /\ UNCHANGED <<world, pullFaults>>

PassOver(note) == pullPc' = "idle" /\ pullError' = note /\ owed' = {} /\ days' = NoDays /\ recs' = {}

Begin ==
  /\ pullPc = "idle" /\ online
  /\ pullPc' = "days" /\ page' = 0 /\ start' = 0 /\ days' = NoDays
  /\ owed' = {r \in card : Dated(DirOf[r])}
  /\ UNCHANGED <<world, pullFaults, held, recs, size, more, archive, pullError, older>>

(* daysPage: what is not a date is dropped before the offset is counted on. *)
Valid(list) == {d \in list : Dated(d)}
NextStart(got) == start + Cardinality(got)

DaysPage ==
  /\ pullPc = "days" /\ Exchange
  /\ LET got == Valid(OnPage(DaysListing, DirListedAt, start, DirsPerPage))
         on  == Rest(DaysListing, start, DirsPerPage) /\ got # {} /\ page + 1 < MaxDayPages
     IN /\ With(got)
        /\ \/ on /\ page' = page + 1 /\ start' = NextStart(got) /\ pullPc' = pullPc
           \/ ~on /\ pullPc' = "day" /\ UNCHANGED <<page, start>>
  /\ UNCHANGED <<held, recs, size, more, archive, pullError, owed, older>>

(* The retention pass that follows a pass that pulled something is Archive's. *)
DaysDone ==
  /\ pullPc = "day" /\ DaysToGo = {} /\ PassOver("none")
  /\ UNCHANGED <<world, pullFaults, page, start, held, size, more, archive, older>>

(* pullDay: the archive is asked what it holds, once for a day. *)
(* Mutant: the archive is not asked. *)
HeldForgotten(day) == {}
HeldOf(day) == {r \in archive : DirOf[r] = day}

DayBegins ==
  /\ pullPc = "day" /\ DaysToGo # {}
  /\ held' = HeldOf(Day) /\ late' = {} /\ start' = 0 /\ pullPc' = "list"
  /\ UNCHANGED <<world, pullFaults, page, days, recs, size, more, archive, pullError, owed, overlap>>

DayPage ==
  /\ pullPc = "list" /\ Exchange
  /\ LET all == DayListing(Day) got == OnPage(all, ListedAt, start, RecsPerPage)
     IN \/ /\ got # {} /\ pullPc' = "get" /\ recs' = got /\ size' = Cardinality(got)
           /\ more' = Rest(all, start, RecsPerPage) /\ UNCHANGED days
        \/ /\ got = {} /\ pullPc' = "day" /\ DayOver /\ UNCHANGED <<recs, size, more>>
  /\ UNCHANGED <<page, start, held, archive, pullError, owed, older>>

(* Mutant: what is older than something held is taken for held. *)
WantedAfter(r) == r \notin OddAt /\ \A h \in held : h < r
Wanted(r) == r \notin held /\ r \notin OddAt

First  == CHOOSE r \in recs : \A q \in recs : ListedAt[r] <= ListedAt[q]
LookedAt == recs' = recs \ {First} /\ owed' = owed \ {First}

Passed ==
  /\ pullPc = "get" /\ recs # {} /\ ~Wanted(First) /\ LookedAt
  /\ UNCHANGED <<world, pullFaults, pullPc, page, start, days, held, size, more, archive, pullError, older>>

Downloaded ==
  /\ pullPc = "get" /\ recs # {} /\ Wanted(First) /\ First \in card /\ LookedAt
  /\ archive' = archive \cup {First}
  /\ UNCHANGED <<world, pullFaults, pullPc, page, start, days, held, size, more, pullError, older>>

(* One recording that will not come across, the camera's or the disk's doing. *)
NotDownloaded ==
  /\ pullPc = "get" /\ recs # {} /\ Wanted(First) /\ LookedAt
  /\ \/ First \notin card /\ UNCHANGED pullFaults
     \/ pullFaults < MaxPullFaults /\ pullFaults' = pullFaults + 1
  /\ UNCHANGED <<world, pullPc, page, start, days, held, size, more, archive, pullError, older>>

(* Mutant: one too many. *)
NextOffsetPast == start + size + 1
NextOffset == start + size

PageDone ==
  /\ pullPc = "get" /\ recs = {}
  /\ \/ more /\ pullPc' = "list" /\ start' = NextOffset /\ UNCHANGED days
     \/ ~more /\ pullPc' = "day" /\ DayOver /\ UNCHANGED start
  /\ UNCHANGED <<world, pullFaults, page, held, recs, size, more, archive, pullError, owed, older>>

(* A listing that fails, or an archive that cannot be read, ends the pass. *)
PassFails ==
  /\ pullPc \in {"days", "day", "list"} /\ (pullPc = "day" => DaysToGo # {})
  /\ pullFaults < MaxPullFaults /\ pullFaults' = pullFaults + 1 /\ PassOver("failed")
  /\ UNCHANGED <<world, page, start, held, size, more, archive, older>>

NoListing ==
  /\ pullPc \in {"days", "list"} /\ ~listing /\ PassOver("noListing")
  /\ UNCHANGED <<world, pullFaults, page, start, held, size, more, archive, older>>

(* A new device knows nothing of a pass, nor yet that the camera is there. *)
NewDevice ==
  /\ pullFaults < MaxPullFaults /\ pullFaults' = pullFaults + 1 /\ PassOver("none") /\ online' = FALSE
  /\ UNCHANGED <<made, card, deleted, listing, page, start, held, size, more, archive, late>>

Restarted == NewDevice /\ overlap' = FALSE

(* Sync starts the new device of a camera whose address changed, and stops the *)
(* old one afterwards: until then that one pulls as well, whatever it was at.  *)
Replace == NewDevice /\ ~overlap /\ overlap' = TRUE

OldStores ==
  /\ overlap /\ pullFaults < MaxPullFaults /\ pullFaults' = pullFaults + 1
  /\ \E r \in (card \cap Storable) \ archive : archive' = archive \cup {r} /\ late' = late \cup {r}
  /\ UNCHANGED <<world, pullPc, pass, pullError, overlap, owed>>

OldStops ==
  /\ overlap /\ overlap' = FALSE
  /\ UNCHANGED <<world, pullFaults, pullPc, pass, archive, pullError, owed, late>>

PullOnce == \/ Begin \/ DaysPage \/ DaysDone \/ DayBegins \/ DayPage \/ Passed \/ Downloaded
            \/ NotDownloaded \/ PageDone \/ PassFails \/ NoListing

PullNext == \/ Records \/ Deletes \/ Updated \/ Polled \/ PullOnce \/ Restarted
        \/ Replace \/ OldStores \/ OldStops

PullSpec == PullInit /\ [][PullNext]_pullVars

(* The loop never ends and every exchange is answered or times out; a camera  *)
(* that went quiet is seen to come back.                                     *)
PullFairness == WF_pullVars(PullOnce) /\ WF_pullVars(~online /\ Polled)

FairPullSpec == PullSpec /\ PullFairness

-----------------------------------------------------------------------------
(* Properties *)

(* README.md:25, "Restart mid-catch-up and it costs a listing request, not a   *)
(* re-download": what is about to be asked for is not held already, unless a    *)
(* device that was being stopped stored it since the archive was asked.        *)
FetchedOnce ==
  pullPc = "get" /\ recs # {} /\ Wanted(First) => First \notin archive \ late

(* What holds that up, where the camera lists a directory oldest first: what is   *)
(* held and was not when the day began lies before the page that comes, or the     *)
(* place reached in this one.                                                *)
OldestFirst == \A q, r \in Recs : q < r /\ DirOf[q] = DirOf[r] => ListedAt[q] < ListedAt[r]

Reached   == IF pullPc = "get" THEN start + size ELSE start
Before(r) == Place(r, DayListing(Day), ListedAt) <= Reached

OnTheCard == made \in 0..Total /\ card \subseteq 1..made /\ archive \subseteq 1..made
InTheDay  == size \in Nat /\ (pullPc \in {"list", "get"} => start \in Nat)
PageInHand ==
  /\ pullPc # "get" => recs = {}
  /\ \A r \in recs : r \in 1..made /\ DirOf[r] = Day /\ Before(r)
FetchedBehind ==
  pullPc \in {"list", "get"} =>
    \A r \in archive \ (held \cup late) : DirOf[r] = Day => r \notin recs /\ Before(r)

PullInductive == OnTheCard /\ InTheDay /\ PageInHand /\ FetchedBehind

(* recordings.go:38-39: a pass that ends well has looked at everything that was  *)
(* on the card, under a date, when it began - unless the camera deleted           *)
(* something meanwhile, which moves every page (Deletes empties what is owed);    *)
(* and, pull.go:101-104, what it stores is of the oldest day it still owes, for   *)
(* that is the nearest to being deleted.                                     *)
WholePass ==
  [][/\ pullPc = "day" /\ pullPc' = "idle" /\ pullError' = "none" /\ pullFaults' = pullFaults => owed = {}
     /\ recs' # recs => \A r \in archive' \ archive, o \in owed : DirOf[o] >= DirOf[r]]_pullVars

(* What holds that up, where no page of the days is without a date and the pages  *)
(* are enough: what is still to be looked at is on a day that is to be walked, or     *)
(* after the pages that were read; and, of the day that is walked, on the page in   *)
(* hand or after it.                                                         *)
UndatedBefore(d) == {u \in Undated : DirListedAt[u] < DirListedAt[d]}
DatesPerPage(d)  == DirsPerPage - Cardinality(UndatedBefore(d))
DaysFit == \A d \in Dirs \ Undated :
  DatesPerPage(d) > 0 /\ Cardinality(Dirs) <= MaxDayPages * DatesPerPage(d)

Unlisted(d) == Place(d, DaysListing, DirListedAt) > start /\ page * DatesPerPage(d) <= start
Ahead(o, n) == Place(o, DayListing(Day), ListedAt) > n

HandsOn ==
  /\ pullPc # "get" => recs = {}
  /\ pullPc \in {"list", "get"} => DaysToGo # {}
OwedIsToCome == \A o \in owed :
  /\ o \in card /\ Dated(DirOf[o])
  /\ pullPc = "days" => days[DirOf[o]] > 0 \/ Unlisted(DirOf[o])
  /\ pullPc \in {"day", "list", "get"} => days[DirOf[o]] > 0
  /\ pullPc = "list" /\ DirOf[o] = Day => Ahead(o, start)
  /\ pullPc = "get" /\ DirOf[o] = Day => o \in recs \/ (more /\ Ahead(o, start + size))

PassInductive == PullTypeOK /\ HandsOn /\ OwedIsToCome

(* What can be stored and stays on the card of a camera that lists it is held in  *)
(* the end, whatever failed on the way.                                      *)
CaughtUp == \A r \in Storable : (listing /\ r \in card) ~> (r \in archive \/ r \notin card)

(* recordings.go:38-39 of Days alone: the listing leaves out no day that is on  *)
(* the card from the first page to the last.                                 *)
DaysListed ==
  [][pullPc = "days" /\ pullPc' = "day" => {DirOf[r] : r \in owed} \subseteq DaysToGo']_pullVars
=============================================================================
