------------------------------- MODULE ProviderConfig -------------------------------
(***************************************************************************)
(* What NewWithConfig of redis and db makes of a configuration             *)
(* (redis/config.go, db/config.go): checks, then defaults.                 *)
(***************************************************************************)
EXTENDS Integers, SequencesExt

CONSTANTS
    Address,                \* addresses, trimmed
    Blank,                  \* one that is empty then
    Spelling,               \* the spellings of mysql, sqlite, postgres, in any case and
                            \* with blanks around: a function to these three
    DefaultRetries,         \* 3
    DefaultMinBackoff, DefaultMaxBackoff,   \* 8 ms and 512 ms
    DefaultConns,           \* DefaultMaxOpenConns, DefaultMaxIdleConns (12)
    Invalid                 \* an error is returned

\* Go-redis takes -1 for "off" and, as a timeout, -2 for "no deadline at all".
ProviderAssumption ==
    /\ Blank \notin Address
    /\ \A raw \in DOMAIN Spelling :
         LET driver == Spelling[raw]
         IN  driver \in DOMAIN Spelling /\ Spelling[driver] = driver
    /\ Invalid \notin DOMAIN Spelling
    /\ DefaultRetries \in Nat \ {0} /\ DefaultConns \in Nat \ {0}
    /\ DefaultMinBackoff \in Nat \ {0}
    /\ DefaultMaxBackoff \in Nat /\ DefaultMaxBackoff >= DefaultMinBackoff

\* The first occurrence of every address that is not blank.
normalizeAddresses(addresses) ==
    LET out[i \in 0 .. Len(addresses)] ==
          IF i = 0 THEN <<>>
          ELSE IF addresses[i] = Blank \/ Contains(out[i - 1], addresses[i]) THEN out[i - 1]
          ELSE Append(out[i - 1], addresses[i])
    IN  out[Len(addresses)]

BackoffsCross(cfg) ==
    /\ cfg.minBackoff > 0 /\ cfg.maxBackoff > 0
    /\ cfg.minBackoff > cfg.maxBackoff

\* The checks of normalizeConfig, on the addresses that are left.
ValidRedis(cfg, addresses) ==
    /\ addresses # <<>>
    /\ cfg.db >= 0
    /\ Len(addresses) > 1 => cfg.db = 0
    /\ cfg.poolSize >= 0 /\ cfg.minIdle >= 0
    /\ cfg.maxRetries >= -1
    /\ cfg.minBackoff >= -1 /\ cfg.maxBackoff >= -1
    /\ ~BackoffsCross(cfg)
    /\ cfg.dialTimeout >= 0 /\ cfg.rwTimeout >= -2

Default(value, default) == IF value = 0 THEN default ELSE value

\* Mutated form of normalizeConfig: every default replaces whatever is not positive.
normalizeConfigOverOff(cfg) ==
    LET addresses == normalizeAddresses(cfg.addresses)
    IN  IF ~ValidRedis(cfg, addresses) THEN Invalid
        ELSE [cfg EXCEPT !.addresses = addresses,
                !.maxRetries = IF @ <= 0 THEN DefaultRetries ELSE @,
                !.minBackoff = IF @ <= 0 THEN DefaultMinBackoff ELSE @,
                !.maxBackoff = IF @ <= 0 THEN DefaultMaxBackoff ELSE @]

\* The back-offs are compared before the defaults are filled in.
normalizeConfig(cfg) ==
    LET addresses == normalizeAddresses(cfg.addresses)
    IN  IF ~ValidRedis(cfg, addresses) THEN Invalid
        ELSE [cfg EXCEPT !.addresses = addresses,
                !.maxRetries = Default(@, DefaultRetries),
                !.minBackoff = Default(@, DefaultMinBackoff),
                !.maxBackoff = Default(@, DefaultMaxBackoff)]

ParseDriver(raw) == IF raw \in DOMAIN Spelling THEN Spelling[raw] ELSE Invalid

\* The same for db; a driver that is not known and an empty DSN are refused.
normalizedDB(cfg) ==
    IF ParseDriver(cfg.driver) = Invalid \/ cfg.dsn = Blank THEN Invalid
    ELSE [cfg EXCEPT !.driver = ParseDriver(@),
                     !.maxOpen = IF @ <= 0 THEN DefaultConns ELSE @,
                     !.maxIdle = IF @ <= 0 THEN DefaultConns ELSE @]

(***************************************************************************)
(* Properties.                                                             *)
(***************************************************************************)

\* One of the two back-offs was left to its default and the other was set.
HalfDefaulted(cfg) == (cfg.minBackoff = 0) # (cfg.maxBackoff = 0)

\* A configuration that was accepted means the same when it is read back and normalised
\* again: nothing that was set, "off" included, is replaced, and what the checks refuse
\* does not come out of them.  The exception is a back-off that crosses the default of
\* the other one (redis/config.go:85, 100-105).
RedisFormIsStable(cfg) ==
    LET normal == normalizeConfig(cfg)
    IN  normal # Invalid =>
          /\ cfg.maxRetries # 0 => normal.maxRetries = cfg.maxRetries
          /\ cfg.minBackoff # 0 => normal.minBackoff = cfg.minBackoff
          /\ cfg.maxBackoff # 0 => normal.maxBackoff = cfg.maxBackoff
          /\ \/ normalizeConfig(normal) = normal
             \/ HalfDefaulted(cfg) /\ BackoffsCross(normal)

DBFormIsStable(cfg) ==
    LET normal == normalizedDB(cfg)
    IN  normal # Invalid => normalizedDB(normal) = normal /\ normal.maxOpen > 0
==================================================================================
