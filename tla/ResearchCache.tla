----------------------------- MODULE ResearchCache -----------------------------
(***************************************************************************)
(* agent_runner/research_cache.py: the index of sources that were found.   *)
(* A record is what tells sources apart, its canonical URL and the hash of *)
(* its content; the other fields follow the record that was written last.  *)
(* The file is rewritten whole, so the order of its lines is not kept.     *)
(***************************************************************************)
CONSTANTS
  Urls,         \* canonical URLs, the "/" of a record without one included
  Hashes,
  NoHash        \* a record without content

ASSUME CacheAssumption == NoHash \notin Hashes

Records == [url : Urls, hash : Hashes \union {NoHash}]

\* Two records of one source: the same URL, or the same content.
SameSource(a, b) == a.url = b.url \/ (a.hash # NoHash /\ a.hash = b.hash)

\* Faulty: two records without content are taken for one source.
MergedByAnyHash(cache, r) ==
  {c \in cache : c.url # r.url /\ c.hash # r.hash} \union {r}

\* Faulty: a record that is known by its URL is not looked up by its content.
MergedByUrlFirst(cache, r) ==
  IF \E c \in cache : c.url = r.url
    THEN {c \in cache : c.url # r.url} \union {r}
    ELSE {c \in cache : ~SameSource(c, r)} \union {r}

\* write: the first record of the source takes the new fields, any other goes.
Merged(cache, r) == {c \in cache : ~SameSource(c, r)} \union {r}

=============================================================================
