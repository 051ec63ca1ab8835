------------------------------ MODULE JobLease ------------------------------
(***************************************************************************)
(* The lease of a scheduled job across replicas (core/job_leases.py): a    *)
(* Redis key with a lifetime and the token of its holder or, where Redis   *)
(* is away, a PostgreSQL advisory lock of the holder's connection.  The    *)
(* two do not know of each other: all replicas are taken to see the same   *)
(* one.  Nobody renews the key: 75 s against a budget of 45 s, which a     *)
(* cycle may overrun with the recipients of the outcome it is at.          *)
(***************************************************************************)
CONSTANTS
    Replicas, Nobody, Backends,
    Overruns   \* may a cycle outlast its lease?

ASSUME LeaseAssumption == /\ Nobody \notin Replicas
                          /\ Backends \subseteq {"redis", "postgres"}
                          /\ Overruns \in BOOLEAN

VARIABLES
    backend,   \* the store the replicas reach
    key,       \* whose token the Redis key holds
    advisory,  \* whose connection holds the advisory lock
    lease      \* replica -> the backend it believes it holds the lease of

leaseVars == <<backend, key, advisory, lease>>

LeaseTypeOK == /\ backend \in Backends
               /\ key \in Replicas \cup {Nobody}
               /\ advisory \in Replicas \cup {Nobody}
               /\ lease \in [Replicas -> {"none", "redis", "postgres"}]

LeaseInit == /\ backend \in Backends
             /\ key = Nobody
             /\ advisory = Nobody
             /\ lease = [p \in Replicas |-> "none"]

\* Mutant: SET without NX.
AcquireRedisOver(p) ==
    /\ backend = "redis" /\ lease[p] = "none"
    /\ key' = p
    /\ lease' = [lease EXCEPT ![p] = "redis"]
    /\ UNCHANGED <<backend, advisory>>

AcquireRedis(p) ==
    /\ backend = "redis" /\ lease[p] = "none"
    /\ key = Nobody
    /\ key' = p
    /\ lease' = [lease EXCEPT ![p] = "redis"]
    /\ UNCHANGED <<backend, advisory>>

AcquirePostgres(p) ==
    /\ backend = "postgres" /\ lease[p] = "none"
    /\ advisory = Nobody
    /\ advisory' = p
    /\ lease' = [lease EXCEPT ![p] = "postgres"]
    /\ UNCHANGED <<backend, key>>

\* Each deletes its own token only; a connection gives up its own lock.
Release(p) ==
    /\ key' = IF lease[p] = "redis" /\ key = p THEN Nobody ELSE key
    /\ advisory' = IF advisory = p THEN Nobody ELSE advisory
    /\ lease' = [lease EXCEPT ![p] = "none"]
    /\ UNCHANGED backend

\* The lock dies with the connection, the key stays until it expires.
HolderDies(p) ==
    /\ advisory' = IF advisory = p THEN Nobody ELSE advisory
    /\ lease' = [lease EXCEPT ![p] = "none"]
    /\ UNCHANGED <<backend, key>>

\* Mutant: a key shorter than a cycle.
KeyExpiresEarly ==
    /\ key # Nobody
    /\ key' = Nobody
    /\ UNCHANGED <<backend, advisory, lease>>

KeyExpires ==
    /\ key # Nobody /\ (lease[key] = "none" \/ Overruns)
    /\ key' = Nobody
    /\ UNCHANGED <<backend, advisory, lease>>

\* The lease as its users think of it: one holder at a time.
OneHolder == \A p, q \in Replicas : lease[p] # "none" /\ lease[q] # "none" => p = q
=============================================================================
