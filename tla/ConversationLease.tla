--------------------------- MODULE ConversationLease ---------------------------
(***************************************************************************)
(* agent_server/conversation_lease.py: which server owns the directory of  *)
(* a conversation, and the life of the EventServices of that conversation  *)
(* (EventService.start() and close(), ConversationService).                *)
(*                                                                         *)
(* A server is a process with an owner_instance_id of its own.  A service  *)
(* is one EventService object; a server may make several for the same      *)
(* conversation, one per request that finds none.  Every operation on the  *)
(* lease file is atomic under the lease's FileLock.  Time is the expiry of *)
(* the lease, which may happen at any moment.                              *)
(***************************************************************************)
EXTENDS Naturals

CONSTANTS Servers,     \* agent-server processes, by owner_instance_id
          Services,    \* EventService objects of this conversation
          ServerOf,    \* the server that makes a service
          HostOf,      \* the machine a server runs on
          Nobody       \* no service, no server, no lease

ASSUME LeaseAssumption == /\ ServerOf \in [Services -> Servers]
                          /\ Nobody \notin Services \union Servers

VARIABLES server,   \* a server's process: "up", "stopping" or "dead"
          table,    \* _event_services[conversation_id] of each server
          phase,    \* of a service: "new", "starting" (in start() and the
                    \*   subscriptions after it), "open" (in the table),
                    \*   "closing" (in close()), "closed", or "dead"
          gen,      \* a service's _lease_generation, 0 for None
          lease,    \* the lease file: owner and generation, or Nobody
          expired,  \* expires_at <= now
          last      \* history: the server whose claim() succeeded last

leaseVars == <<server, table, phase, gen, lease, expired, last>>

\* _owner_is_dead(): a process id says nothing about another machine.
OwnerIsDead(i) == /\ HostOf[lease.owner] = HostOf[i]
                  /\ server[lease.owner] = "dead"

\* The test of claim().
MayClaim(i) == lease # Nobody => \/ lease.owner = i
                                 \/ expired
                                 \/ OwnerIsDead(i)

\* The payload that claim() writes.
Claimed(i) == [owner |-> i,
               gen |-> IF lease = Nobody THEN 1
                       ELSE IF lease.owner = i THEN lease.gen
                       ELSE lease.gen + 1]

\* _assert_owner_locked().  Mutant: compare the generation only.
MutGenerationOnly(s) == lease # Nobody /\ lease.gen = gen[s]
Holds(s) == /\ lease # Nobody
            /\ lease.owner = ServerOf[s]
            /\ lease.gen = gen[s]

\* _write_guard(): without a generation it is nullcontext().
MayWrite(s) == gen[s] = 0 \/ Holds(s)

LeaseInit == /\ server = [i \in Servers |-> "up"]
             /\ table = [i \in Servers |-> Nobody]
             /\ phase = [s \in Services |-> "new"]
             /\ gen = [s \in Services |-> 0]
             /\ lease = Nobody
             /\ expired = FALSE
             /\ last = Nobody

\* _start_conversation() makes a service unless the table has an open one.
Wanted(s) == /\ phase[s] = "new"
             /\ server[ServerOf[s]] = "up"
             /\ table[ServerOf[s]] = Nobody

(* start() claims the lease.  What follows has awaits, so that other       *)
(* requests come in before the service is in the table.                    *)
Start(s) == LET i == ServerOf[s] IN
            /\ Wanted(s)
            /\ MayClaim(i)
            /\ lease' = Claimed(i)
            /\ gen' = [gen EXCEPT ![s] = Claimed(i).gen]
            /\ expired' = FALSE
            /\ last' = i
            /\ phase' = [phase EXCEPT ![s] = "starting"]
            /\ UNCHANGED <<server, table>>

(* claim() raises ConversationLeaseHeldError; close() has nothing to undo. *)
StartRefused(s) == /\ Wanted(s)
                   /\ ~MayClaim(ServerOf[s])
                   /\ phase' = [phase EXCEPT ![s] = "closed"]
                   /\ UNCHANGED <<server, table, gen, lease, expired, last>>

(* save_meta() under the guard, then event_services[stored.id] = service,  *)
(* whatever is there.                                                      *)
Register(s) == /\ phase[s] = "starting"
               /\ Holds(s)
               /\ phase' = [phase EXCEPT ![s] = "open"]
               /\ table' = [table EXCEPT ![ServerOf[s]] =
                              IF server[ServerOf[s]] = "up" THEN s ELSE @]
               /\ UNCHANGED <<server, gen, lease, expired, last>>

(* Something between the claim and the insertion raised, save_meta() among *)
(* others: the service is closed.                                          *)
StartFails(s) == /\ phase[s] = "starting"
                 /\ phase' = [phase EXCEPT ![s] = "closing"]
                 /\ UNCHANGED <<server, table, gen, lease, expired, last>>

(* ConversationService.__aexit__(): what is in the table is closed.        *)
Stop(i) == /\ server[i] = "up"
           /\ server' = [server EXCEPT ![i] = "stopping"]
           /\ table' = [table EXCEPT ![i] = Nobody]
           /\ phase' = [s \in Services |-> IF s = table[i] THEN "closing"
                                           ELSE phase[s]]
           /\ UNCHANGED <<gen, lease, expired, last>>

\* release(generation).
Release(s) == /\ lease' = IF Holds(s) THEN Nobody ELSE lease
              /\ expired' = (IF Holds(s) THEN FALSE ELSE expired)

(* The end of close(): release the lease and forget the generation.        *)
Close(s) == /\ phase[s] = "closing"
            /\ Release(s)
            /\ gen' = [gen EXCEPT ![s] = 0]
            /\ phase' = [phase EXCEPT ![s] = "closed"]
            /\ UNCHANGED <<server, table, last>>

(* renew_lease() by the loop over the table; a lost lease is only logged.  *)
Renew(s) == /\ s = table[ServerOf[s]]
            /\ server[ServerOf[s]] = "up"
            /\ Holds(s)
            /\ expired' = FALSE
            /\ UNCHANGED <<server, table, phase, gen, lease, last>>

(* expires_at passes: renewals stopped, or are late.                       *)
Expire == /\ lease # Nobody
          /\ ~expired
          /\ expired' = TRUE
          /\ UNCHANGED <<server, table, phase, gen, lease, last>>

(* The process ends with all its services; its lease file stays.           *)
Crash(i) == /\ server[i] # "dead"
            /\ server' = [server EXCEPT ![i] = "dead"]
            /\ table' = [table EXCEPT ![i] = Nobody]
            /\ phase' = [s \in Services |-> IF ServerOf[s] = i THEN "dead"
                                            ELSE phase[s]]
            /\ gen' = [s \in Services |-> IF ServerOf[s] = i THEN 0 ELSE gen[s]]
            /\ UNCHANGED <<lease, expired, last>>
================================================================================
