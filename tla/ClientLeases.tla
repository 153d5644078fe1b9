---------------------------- MODULE ClientLeases ----------------------------
(***************************************************************************)
(* What the client storage (internal/client/defaultstorage.go) promises to *)
(* those who use it, without its goroutines, queues, locks and maps:       *)
(* ClientStorage implements this specification.                            *)
(*                                                                         *)
(* A client is a lease on its HumanID.  It is made for one place, that is  *)
(* an address and a configuration; it is stored there until it expires and *)
(* is then retired; and it is reclaimed, which closes its upstreams, once  *)
(* it is retired and no request holds it.  A request gets the client that  *)
(* is stored at its place, makes one, or shares what another request of    *)
(* the same place holds.                                                   *)
(***************************************************************************)
EXTENDS Naturals

CONSTANTS
  Reqs, Addrs, Confs,
  HumanIDs, Times,
  Clients,
  None

VARIABLES
  clock,
  addr, sac,   \* each request's place: its address, its configuration or None
  now,         \* when it began to look for a client, if it is looking
  held,        \* the client it holds, or None
  lease,       \* the clients that exist
  up           \* whether the storage has not been shut down

vars == <<clock, addr, sac, now, held, lease, up>>

Leases == [addr : Addrs, sac : Confs, id : HumanIDs, until : Times,
           fin : BOOLEAN, closed : BOOLEAN]

Init ==
  /\ clock = 0
  /\ addr = [r \in Reqs |-> None]
  /\ sac = [r \in Reqs |-> None]
  /\ now = [r \in Reqs |-> None]
  /\ held = [r \in Reqs |-> None]
  /\ lease = [c \in Clients |-> None]
  /\ up = TRUE

Exists(c) == lease[c] # None

\* c is, or was, the client of this place.
IsFor(c, a, s) == Exists(c) /\ lease[c].addr = a /\ lease[c].sac = s

\* c can be found at its place: it has not been retired.
Kept(c) == Exists(c) /\ ~lease[c].fin

\* h is no other address's, as far as it is valid at all.
Free(h, a) ==
  h.until > clock =>
    \A c \in Clients :
      Exists(c) /\ lease[c].id = h.id /\ lease[c].until > clock => lease[c].addr = a

\* o is a request of this place that holds c.
Shares(o, c, a, s) == held[o] = c /\ addr[o] = a /\ sac[o] = s

----------------------------------------------------------------------------
(* Requests *)

\* A request that needs no client of the storage: it has a static one, or none.
AskStatic(r, a) ==
  /\ addr[r] = None
  /\ addr' = [addr EXCEPT ![r] = a]
  /\ UNCHANGED <<clock, sac, now, held, lease, up>>

\* A request arrives at its place, where it may share a client at once.
Ask(r, a, s, c) ==
  /\ addr[r] = None
  /\ c # None => \E o \in Reqs : Shares(o, c, a, s)
  /\ addr' = [addr EXCEPT ![r] = a]
  /\ sac' = [sac EXCEPT ![r] = s]
  /\ held' = [held EXCEPT ![r] = c]
  /\ UNCHANGED <<clock, now, lease, up>>

\* It begins to look for a client.
Look(r) ==
  /\ sac[r] # None
  /\ now' = [now EXCEPT ![r] = clock]
  /\ UNCHANGED <<clock, addr, sac, held, lease, up>>

\* It finds one that was valid when it began to look.
Find(r, c) ==
  /\ held[r] = None
  /\ IsFor(c, addr[r], sac[r]) /\ Kept(c)
  /\ now[r] # None /\ lease[c].until > now[r]
  /\ held' = [held EXCEPT ![r] = c]
  /\ now' = [now EXCEPT ![r] = None]
  /\ UNCHANGED <<clock, addr, sac, lease, up>>

\* It has found none, and needs the time no more.
Miss(r) ==
  /\ now[r] # None
  /\ now' = [now EXCEPT ![r] = None]
  /\ UNCHANGED <<clock, addr, sac, held, lease, up>>

\* It makes one: for a place that has none, with an ID that nobody else has.
Make(r, c, h) ==
  /\ held[r] = None /\ addr[r] \in Addrs /\ sac[r] \in Confs
  /\ ~Exists(c)
  /\ \A d \in Clients : ~(IsFor(d, addr[r], sac[r]) /\ Kept(d))
  /\ Free(h, addr[r])
  /\ lease' = [lease EXCEPT ![c] =
                 [addr |-> addr[r], sac |-> sac[r], id |-> h.id, until |-> h.until,
                  fin |-> FALSE, closed |-> FALSE]]
  /\ held' = [held EXCEPT ![r] = c]
  /\ UNCHANGED <<clock, addr, sac, now, up>>

\* What o holds is handed to others of the same place that wait for it.
Share(o, Q) ==
  /\ held[o] # None
  /\ \A q \in Q : held[q] = None /\ Shares(o, held[o], addr[q], sac[q])
  /\ held' = [q \in Reqs |-> IF q \in Q THEN held[o] ELSE held[q]]
  /\ UNCHANGED <<clock, addr, sac, now, lease, up>>

\* It gives up before it has used what it holds.
Drop(r) ==
  /\ held[r] # None
  /\ held' = [held EXCEPT ![r] = None]
  /\ UNCHANGED <<clock, addr, sac, now, lease, up>>

\* It is over.
Leave(r) ==
  /\ addr[r] # None
  /\ addr' = [addr EXCEPT ![r] = None]
  /\ sac' = [sac EXCEPT ![r] = None]
  /\ held' = [held EXCEPT ![r] = None]
  /\ UNCHANGED <<clock, now, lease, up>>

----------------------------------------------------------------------------
(* Leases *)

\* Clients that have expired are retired, by whoever notices.
Retire(C) ==
  /\ C # {}
  /\ \A c \in C : Kept(c) /\ lease[c].until <= clock
  /\ lease' = [c \in Clients |-> IF c \in C THEN [lease[c] EXCEPT !.fin = TRUE] ELSE lease[c]]
  /\ UNCHANGED <<clock, addr, sac, now, held, up>>

\* A retired client that no request holds ceases to exist.
Reclaim(c) ==
  /\ Exists(c) /\ ~Kept(c)
  /\ \A r \in Reqs : held[r] # c
  /\ lease' = [lease EXCEPT ![c] = None]
  /\ UNCHANGED <<clock, addr, sac, now, held, up>>

Shutdown ==
  /\ up
  /\ up' = FALSE
  /\ UNCHANGED <<clock, addr, sac, now, held, lease>>

\* Clients are closed at their places, by a shutdown only.
Close(C) ==
  /\ ~up /\ C # {}
  /\ \A c \in C : Kept(c)
  /\ lease' = [c \in Clients |-> IF c \in C THEN [lease[c] EXCEPT !.closed = TRUE] ELSE lease[c]]
  /\ UNCHANGED <<clock, addr, sac, now, held, up>>

Tick ==
  /\ clock' = clock + 1
  /\ UNCHANGED <<addr, sac, now, held, lease, up>>

----------------------------------------------------------------------------

ReqNext(r) ==
  \/ \E a \in Addrs : AskStatic(r, a)
  \/ \E a \in Addrs, s \in Confs, c \in Clients \cup {None} : Ask(r, a, s, c)
  \/ Look(r) \/ Miss(r) \/ Drop(r) \/ Leave(r)
  \/ \E c \in Clients : Find(r, c)
  \/ \E c \in Clients, h \in [id : HumanIDs, until : Times] : Make(r, c, h)
  \/ \E Q \in SUBSET Reqs : Share(r, Q)

Next ==
  \/ \E r \in Reqs : ReqNext(r)
  \/ \E C \in SUBSET Clients : Retire(C) \/ Close(C)
  \/ \E c \in Clients : Reclaim(c)
  \/ Shutdown
  \/ Tick

Spec == Init /\ [][Next]_vars

----------------------------------------------------------------------------
(* What this amounts to *)

\* A place has one client at a time that can be found there.
OnePerPlace ==
  \A c, d \in Clients :
    Kept(c) /\ Kept(d) /\ IsFor(d, lease[c].addr, lease[c].sac) => c = d

\* The client that a request holds is its own, and open until the shutdown.
HeldServes ==
  \A r \in Reqs : held[r] # None =>
    IsFor(held[r], addr[r], sac[r]) /\ (up => ~lease[held[r]].closed)

\* An ID that is valid is one address's, also when its client is retired.
ValidIDsUnique ==
  \A c, d \in Clients :
    /\ Exists(c) /\ lease[c].until > clock
    /\ Exists(d) /\ lease[d].until > clock
    /\ lease[c].id = lease[d].id
    => lease[c].addr = lease[d].addr

Promise == OnePerPlace /\ HeldServes /\ ValidIDsUnique
=============================================================================
