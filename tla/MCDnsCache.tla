----------------------------- MODULE MCDnsCache -----------------------------
EXTENDS DnsCache, TLC

\* Names are interchangeable, and so are callers.
CacheSymmetry == Permutations(Host) \cup Permutations(Caller)
=============================================================================
