------------------------------ MODULE GeoCache ------------------------------
(***************************************************************************)
(* The files of the geo rules and what is known of them: ensure_all        *)
(* (mirage/core/geosite_cache.py), run again and again by the client's geo *)
(* task.  Each source has mirrors, each mirror is asked through a tunnel   *)
(* and then directly; a file that is there is asked for conditionally.     *)
(*                                                                         *)
(* All mirrors publish the same versions, some later than others.  An ETag *)
(* names a mirror and a version; Last-Modified grows with the version.     *)
(***************************************************************************)
EXTENDS Integers, Sequences

CONSTANTS Keys,        \* sources: "site-<name>", "ip-<name>"
          Mirrors,     \* their URLs, in order
          Tagged,      \* mirrors that send ETags; all send Last-Modified
          MaxVersion, MaxAborts, MaxDeletions,   \* bounds
          Missing      \* no file, no record, no ETag

VARIABLES remote,      \* the version each mirror serves
          dat,         \* the .dat of each source
          meta,        \* meta.json
          mem,         \* the copy ensure_all works on
          exists,      \* _ensure_one: the file was there when it started
          stage,       \* _ensure_one: "idle", "try", "ok", "failed"
          at, via,     \* the mirror and the way it tries
          pool,        \* _pick_geo_pool found a pool
          ready,       \* sources returned by the last ensure_all
          old,         \* downloaded_at is more than update_days ago
          aborts, deletions

geoVars == <<remote, dat, meta, mem, exists, stage, at, via, pool, ready, old,
             aborts, deletions>>

Urls == {Mirrors[i] : i \in DOMAIN Mirrors}
Framings == {"length", "chunked", "close"}

(* A source without a URL is not asked for (_ensure_typed).                  *)
ASSUME GeoAssumption == Mirrors \in Seq(Urls) \ {<<>>}

Running == \E k \in Keys : stage[k] # "idle"

GeoInit ==
    /\ remote = [u \in Urls |-> 1]
    /\ dat = [k \in Keys |-> Missing]
    /\ meta = [k \in Keys |-> Missing] /\ mem = meta
    /\ exists = [k \in Keys |-> FALSE]
    /\ stage = [k \in Keys |-> "idle"]
    /\ at = [k \in Keys |-> 1] /\ via = [k \in Keys |-> "direct"]
    /\ pool = FALSE /\ ready = {}
    /\ old = [k \in Keys |-> FALSE]
    /\ aborts = 0 /\ deletions = 0

-----------------------------------------------------------------------------
(* The file is missing, unknown, or old.                                     *)
NeedsDownload(k) == dat[k] = Missing \/ meta[k] = Missing \/ old[k]

(* ensure_all reads meta.json and starts every source at once, which looks   *)
(* for its file and whether it needs a download.                             *)
Begin ==
    /\ ~Running
    /\ pool' \in BOOLEAN
    /\ mem' = meta
    /\ exists' = [k \in Keys |-> dat[k] # Missing]
    /\ stage' = [k \in Keys |-> IF NeedsDownload(k) THEN "try" ELSE "ok"]
    /\ at' = [k \in Keys |-> 1]
    /\ via' = [k \in Keys |-> IF pool' THEN "tunnel" ELSE "direct"]
    /\ UNCHANGED <<remote, dat, meta, ready, old, aborts, deletions>>

(* Mutant: the request is conditional though no file was there.              *)
Conditional_Always(k) == mem[k] # Missing

(* The ETag and the date are kept for every mirror and way once the file has *)
(* been seen, also if it is deleted meanwhile.                               *)
Conditional(k) == mem[k] # Missing /\ exists[k]

(* The mirror answers 304: the ETag it was sent is its own and current, or   *)
(* it was sent only a date, which is not before its version's.               *)
NotModified(k, u) ==
    /\ Conditional(k)
    /\ IF mem[k].tag # Missing THEN mem[k].tag = <<u, remote[u]>> ELSE remote[u] <= mem[k].date

(* Mutant: the date of a lagging mirror does not replace a newer one.        *)
Record_KeepsNewest(k, tag, date) ==
    /\ mem' = [mem EXCEPT ![k] = [tag |-> tag,
                                  date |-> IF @ # Missing /\ @.date > date THEN @.date ELSE date]]
    /\ old' = [old EXCEPT ![k] = FALSE]
    /\ stage' = [stage EXCEPT ![k] = "ok"]

(* _record                                                                   *)
Record(k, tag, date) ==
    /\ mem' = [mem EXCEPT ![k] = [tag |-> tag, date |-> date]]
    /\ old' = [old EXCEPT ![k] = FALSE]
    /\ stage' = [stage EXCEPT ![k] = "ok"]

Revalidate(k) ==
    /\ stage[k] = "try" /\ NotModified(k, Mirrors[at[k]])
    /\ Record(k, mem[k].tag, mem[k].date)
    /\ UNCHANGED <<remote, dat, meta, exists, at, via, pool, ready, aborts, deletions>>

(* _parse_http_response, _dechunk, _download: a body that is shorter than    *)
(* announced is an error; one that ends with the connection is not.          *)
Accepted(whole, framing) == whole \/ framing = "close"

Save(k) ==
    /\ stage[k] = "try" /\ ~NotModified(k, Mirrors[at[k]])
    /\ \E whole \in BOOLEAN, framing \in Framings :
         /\ Accepted(whole, framing)
         /\ LET u == Mirrors[at[k]] IN
              /\ dat' = [dat EXCEPT ![k] = [version |-> remote[u], whole |-> whole,
                                              framing |-> framing]]
              /\ Record(k, IF u \in Tagged THEN <<u, remote[u]>> ELSE Missing, remote[u])
    /\ UNCHANGED <<remote, meta, exists, at, via, pool, ready, aborts, deletions>>

(* No tunnel, a timeout, another status, too many redirects, a short body:   *)
(* the direct way, the next mirror, or the file as it is.                    *)
TryFails(k) ==
    /\ stage[k] = "try"
    /\ \/ /\ via[k] = "tunnel"
          /\ via' = [via EXCEPT ![k] = "direct"]
          /\ UNCHANGED <<at, stage>>
       \/ /\ via[k] = "direct" /\ at[k] < Len(Mirrors)
          /\ at' = [at EXCEPT ![k] = @ + 1]
          /\ via' = [via EXCEPT ![k] = IF pool THEN "tunnel" ELSE "direct"]
          /\ UNCHANGED stage
       \/ /\ via[k] = "direct" /\ at[k] = Len(Mirrors)
          /\ stage' = [stage EXCEPT ![k] = IF dat[k] # Missing THEN "ok" ELSE "failed"]
          /\ UNCHANGED <<at, via>>
    /\ UNCHANGED <<remote, dat, meta, mem, exists, pool, ready, old, aborts, deletions>>

(* Every source is through: meta.json is replaced, the paths are returned.   *)
End ==
    /\ \A k \in Keys : stage[k] \in {"ok", "failed"}
    /\ meta' = mem
    /\ ready' = {k \in Keys : stage[k] = "ok"}
    /\ stage' = [k \in Keys |-> "idle"]
    /\ UNCHANGED <<remote, dat, mem, exists, at, via, pool, old, aborts, deletions>>

(* The client stops, or meta.json cannot be written: what was saved stays,   *)
(* what was recorded is lost with it.                                        *)
Abort ==
    /\ Running /\ aborts < MaxAborts
    /\ stage' = [k \in Keys |-> "idle"]
    /\ old' = [k \in Keys |-> old[k] \/ mem[k] # meta[k]]
    /\ mem' = meta
    /\ aborts' = aborts + 1
    /\ UNCHANGED <<remote, dat, meta, exists, at, via, pool, ready, deletions>>

-----------------------------------------------------------------------------
Publish(u) ==
    /\ remote[u] < MaxVersion
    /\ remote' = [remote EXCEPT ![u] = @ + 1]
    /\ UNCHANGED <<dat, meta, mem, stage, exists, at, via, pool, ready, old, aborts, deletions>>

Delete(k) ==
    /\ dat[k] # Missing /\ deletions < MaxDeletions
    /\ dat' = [dat EXCEPT ![k] = Missing]
    /\ deletions' = deletions + 1
    /\ UNCHANGED <<remote, meta, mem, stage, exists, at, via, pool, ready, old, aborts>>

Age(k) ==
    /\ ~old[k]
    /\ old' = [old EXCEPT ![k] = TRUE]
    /\ UNCHANGED <<remote, dat, meta, mem, exists, stage, at, via, pool, ready, aborts, deletions>>

Source(k) == Revalidate(k) \/ Save(k) \/ TryFails(k)
GeoNext == \/ Begin \/ End \/ Abort
        \/ \E k \in Keys : Source(k) \/ Delete(k) \/ Age(k)
        \/ \E u \in Urls : Publish(u)

GeoSpec == GeoInit /\ [][GeoNext]_geoVars

(* The geo task comes back, every attempt has a limit, files grow old; the   *)
(* first mirror answers again and again.                                     *)
Answered(k) == at[k] = 1 /\ (Revalidate(k) \/ Save(k))
GeoFairness == /\ WF_geoVars(Begin) /\ WF_geoVars(End)
            /\ \A k \in Keys : WF_geoVars(Source(k)) /\ WF_geoVars(Age(k)) /\ SF_geoVars(Answered(k))

-----------------------------------------------------------------------------
(* Whatever is deleted behind the cache's back, aborted or answered by       *)
(* mirrors of different age, each source comes to have a file that is not    *)
(* older than what the mirrors serve, and the newest if they agree; whole    *)
(* unless its server told no length.  One case is left: a lagging mirror's   *)
(* file is saved and ensure_all aborted before meta.json follows; the newer  *)
(* version's ETag then keeps the older file until the next publication       *)
(* (geosite_cache.py:417-503, 621).                                          *)
Served(k) == /\ dat[k] # Missing
             /\ dat[k].whole \/ dat[k].framing = "close"
             /\ \/ \E u \in Urls : dat[k].version >= remote[u]
                \/ meta[k] # Missing /\ dat[k].version < meta[k].date
EachFollows == \A k \in Keys : <>[]Served(k)

(* A mirror that answers 304 keeps a file that is there only if it is as new *)
(* as what that mirror serves, whichever mirror the file and its ETag or     *)
(* date came from, and whatever failed in between; as long as no record was  *)
(* lost by an abort (geosite_cache.py:431-479).  A file deleted during the   *)
(* download may meet a 304 too and be recorded though gone; the next round   *)
(* finds it missing and asks without conditions (EachFollows).               *)
UnchangedIsCurrent ==
    [][\A k \in Keys : Revalidate(k) /\ aborts = 0 =>
          dat'[k] = Missing \/ dat'[k].version >= remote[Mirrors[at[k]]]]_geoVars
=============================================================================
