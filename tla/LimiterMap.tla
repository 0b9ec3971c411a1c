----------------------------- MODULE LimiterMap -----------------------------
(***************************************************************************)
(* The maps from client addresses to token buckets (traffic/limiter.rs):   *)
(* RateLimiter.limiters and the maps of BandwidthManager.  Connections     *)
(* race for the first entry of a key; a bucket that two of them should     *)
(* share must not be created twice.  Connection drives these operations.   *)
(*                                                                         *)
(* Upload and download maps are handled alike and one of each pair stands  *)
(* for both.  An operation on a DashMap entry is atomic (external).        *)
(***************************************************************************)
EXTENDS Naturals

CONSTANTS
    Conn,      \* connections
    Client,    \* client IP addresses
    MaxBucket  \* bound: buckets created in a behaviour

Maps   == {"rate", "client", "backend"}
Bucket == 1..MaxBucket

ASSUME MaxBucketAssumption == MaxBucket \in Nat

VARIABLES
    entry,   \* entry[m][k]: the bucket map m holds for key k, 0 if none
    nbucket, \* buckets 1..nbucket have been created
    got      \* got[c][m]: the bucket connection c obtained from map m

mapVars == <<entry, nbucket, got>>

MapTypeOK ==
    /\ entry \in [Maps -> [Client -> 0..MaxBucket]]
    /\ nbucket \in 0..MaxBucket
    /\ got \in [Conn -> [Maps -> 0..MaxBucket]]

(* RateLimiter::new and BandwidthManager::new: empty maps.                 *)
MapInit ==
    /\ entry = [m \in Maps |-> [k \in Client |-> 0]]
    /\ nbucket = 0
    /\ got = [c \in Conn |-> [m \in Maps |-> 0]]

(* Mutant: the insertion does not look again.                              *)
InsertBlindly(c, m, k) ==
    /\ nbucket < MaxBucket
    /\ entry' = [entry EXCEPT ![m][k] = nbucket + 1]
    /\ nbucket' = nbucket + 1
    /\ got' = [got EXCEPT ![c][m] = nbucket + 1]

(* entry(key).or_insert_with(new): the present bucket, or a new one.       *)
OrInsert(c, m, k) ==
    LET b == IF entry[m][k] # 0 THEN entry[m][k] ELSE nbucket + 1
    IN /\ b \in Bucket
       /\ entry' = [entry EXCEPT ![m][k] = b]
       /\ nbucket' = IF b > nbucket THEN b ELSE nbucket
       /\ got' = [got EXCEPT ![c][m] = b]

(* The fast path of get_or_create_limiter: map.get.                        *)
Find(c, m, k) ==
    /\ entry[m][k] # 0
    /\ got' = [got EXCEPT ![c][m] = entry[m][k]]
    /\ UNCHANGED <<entry, nbucket>>

Misses(m, k) == entry[m][k] = 0 /\ UNCHANGED mapVars
=============================================================================
