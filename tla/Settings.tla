------------------------------ MODULE Settings ------------------------------
(***************************************************************************)
(* The runtime settings: the live cache and the stored keys                *)
(* (runtime_settings.c), the menu a client edits them through              *)
(* (uds_settings.c, the setting DIDs of uds.c) and the autotune run that   *)
(* stages its gains into the same cache (ppo2_autotune.c).                 *)
(*                                                                         *)
(* Requests are served by the RX thread. Autotune runs at a lower priority *)
(* so it never interrupts a request, but a request interrupts it, and it   *)
(* goes on while a save waits for the flash. main loads the settings at    *)
(* priority 0 with polled transfers, before either thread gets to run.     *)
(*                                                                         *)
(* A gain is a float of Mantissa bits, an exact quotient <<num, den>> here; *)
(* every other setting is a small number.                                  *)
(***************************************************************************)
EXTENDS Integers, Sequences, FiniteSets

CONSTANTS MenuSlots,    \* CONFIG_MENU_ORDER_n: the settings shown first, -1 for none
          Valid,        \* storage index -> the options this variant's hardware has
          Max,          \* storage index -> max_value of settings[]
          Default,      \* RUNTIME_SETTINGS_DEFAULT
          Leftovers,    \* bound: what earlier firmware may have stored
          Mantissa,     \* bits of a float's mantissa
          Scale,        \* PID_GAIN_SCALE_TO_WIRE
          TunedGain,    \* the gain an autotune run proposes, as a client would write it
          Requests,     \* bound: the <<wire index, value>> a client writes
          MaxAsked,  \* bound: requests of one behaviour
          MaxTroubles   \* bound: failed flash accesses and power cuts

Fixed == 0                     \* SETTING_INDEX_FW_COMMIT, read-only
Depth == 3                     \* SETTING_INDEX_DEPTH_COMP
Gains == 4 .. 6                \* SETTING_INDEX_PID_KP .. SETTING_INDEX_PID_KD
CellBcst == 8 .. 10            \* one setting for each cell, one stored key for all
Storage == 0 .. 11             \* indices of settings[]
Fields == Storage \ {Fixed}    \* what RuntimeSettings_t holds
Wires == 0 .. 11               \* menu entries, as a client numbers them
Unset == -1                    \* history: nothing is known of this setting

\* The stored keys: each key by the settings kept under it.
setting_index_to_field(s) == IF s \in CellBcst THEN CellBcst ELSE {s}
Keys == { setting_index_to_field(s) : s \in Fields }

SettingsConstants ==
  /\ MenuSlots \in Seq(Storage \cup {-1}) /\ \A s \in Storage : Max[s] \in Nat
  /\ \A s \in Fields \ Gains : Valid[s] \subseteq 0 .. Max[s]
  /\ DOMAIN Default = Fields /\ Requests \subseteq Wires \X Nat
  /\ {Mantissa, Scale, TunedGain} \subseteq Nat \ {0} /\ {MaxAsked, MaxTroubles} \subseteq Nat
ASSUME SettingsConstants

-----------------------------------------------------------------------------
(* Floats: rounding to the nearest, ties to even.                          *)

Nearest(a, b) ==
  LET q == a \div b   r == a % b
  IN IF 2 * r < b \/ (2 * r = b /\ q % 2 = 0) THEN q ELSE q + 1

\* The float nearest to a / b: a mantissa of full length, scaled up or down. With
\* the shipped scale the exponents go further than those of any float.
Exponents == 0 .. (Mantissa + Scale)
Float(a, b) ==
  LET Fits(n, d) == 2^(Mantissa - 1) * d <= n /\ n < 2^Mantissa * d
  IN IF a = 0 THEN <<0, 1>>
     ELSE IF a < 2^Mantissa * b
          THEN LET e == CHOOSE e \in Exponents : Fits(a * 2^e, b)
               IN <<Nearest(a * 2^e, b), 2^e>>
          ELSE LET e == CHOOSE e \in Exponents : Fits(a, b * 2^e)
               IN <<Nearest(a, b * 2^e) * 2^e, 1>>

GainOf(wire) == LET f == Float(wire, 1) IN Float(f[1], f[2] * Scale)
\* lroundf, of a quotient that is never negative: halves away from zero.
WireOf(gain) == LET f == Float(gain[1] * Scale, gain[2]) IN (2 * f[1] + f[2]) \div (2 * f[2])

-----------------------------------------------------------------------------
(* The menu.                                                               *)

\* The curated settings come first, then every setting in natural order; one that
\* is not in this build, or was placed before, is skipped.
Slots == MenuSlots \o [i \in 1 .. 12 |-> i - 1]
Shown == { n \in DOMAIN Slots :
             Slots[n] \in Storage /\ \A m \in 1 .. (n - 1) : Slots[m] # Slots[n] }
Place(n) == Cardinality({ m \in Shown : m < n })
UDS_ComputeMenuOrder == [wire \in Wires |-> Slots[CHOOSE n \in Shown : Place(n) = wire]]

menu_to_storage(wire) == UDS_ComputeMenuOrder[wire]

\* What a client that reads wire index `wire' is told when the settings are cfg.
UDS_GetSettingValue(cfg, wire) ==
  LET s == menu_to_storage(wire)
  IN CASE s = Fixed -> 0 [] s \in Gains -> WireOf(cfg[s]) [] OTHER -> cfg[s]

\* A gain read back is the gain written, but for one so large that the three
\* roundings of a float on the way in and out show in its last digits.
Near(read, written) == (read - written) * 2^Mantissa \in -(4 * written) .. 4 * written
Same(wire, read, written) ==
  IF menu_to_storage(wire) \in Gains THEN Near(read, written) ELSE read = written

pid_gain_valid(g) == g[1] <= (Max[4] * g[2]) \div Scale

\* The float arithmetic keeps every gain a client may write.
ASSUME GainsRoundTrip ==
  \A s \in Gains : \A wire \in 0 .. Max[s] :
    pid_gain_valid(GainOf(wire)) => Near(WireOf(GainOf(wire)), wire)

-----------------------------------------------------------------------------
VARIABLES
  live,     \* getCached()
  store,    \* NVS: key -> its settings' values, << >> when the key was never saved
  loaded,   \* runtime_settings_is_loaded
  rx,       \* the save the RX thread waits on the flash for
  tune,     \* autotune's copy of the settings while it stages gains
  told,     \* history: wire index -> the value a client was last told took effect
  kept,     \* history: wire index -> the value a client was last told is stored
  asked,    \* requests so far
  troubles  \* troubles left

vars == <<live, store, loaded, rx, tune, told, kept, asked, troubles>>

Idle == [wire |-> Unset, value |-> 0, key |-> {}, bytes |-> << >>, overtaken |-> FALSE]
NotTuning == [busy |-> FALSE, copy |-> Default, missed |-> {}]

SettingsInit ==
  /\ live = Default /\ store \in Leftovers /\ loaded = FALSE
  /\ rx = Idle /\ tune = NotTuning
  /\ told = [w \in Wires |-> Unset] /\ kept = [w \in Wires |-> Unset]
  /\ asked = 0 /\ troubles = MaxTroubles

Trouble == troubles > 0 /\ troubles' = troubles - 1

runtime_settings_validate(cfg) ==
  /\ \A s \in Fields \ Gains : cfg[s] \in Valid[s]
  /\ \A s \in Gains : pid_gain_valid(cfg[s])

\* settings_set: a stored value its own loader refuses leaves the default standing.
\* load_depth and load_bcst check nothing but the length.
Loads(s, v) == CASE s \in Gains -> pid_gain_valid(v)
                 [] s \in CellBcst \cup {Depth} -> TRUE
                 [] OTHER -> v \in Valid[s]

\* The defaults are valid. The cells' flags, which load without a check, were
\* stored as booleans by whatever firmware stored them; so was the depth flag, but
\* a head without an O2 solenoid has no use for a true one.
ASSUME WhatIsThere ==
  /\ runtime_settings_validate(Default)
  /\ \A old \in Leftovers :
       /\ DOMAIN old = Keys
       /\ old[CellBcst] # << >> => \A s \in CellBcst : old[CellBcst][1][s] \in Valid[s]

\* The settings as the keys in readable give them, one by one.
Gathered(readable) ==
  [s \in Fields |->
     LET k == setting_index_to_field(s)
     IN IF k \in readable /\ store[k] # << >> /\ Loads(s, store[k][1][s])
        THEN store[k][1][s] ELSE Default[s]]

\* Settings of which one is not valid are thrown away together.
FromStore(readable) ==
  LET cfg == Gathered(readable)
  IN IF runtime_settings_validate(cfg) THEN cfg ELSE Default

-----------------------------------------------------------------------------
\* main loads the settings; the later calls of divecan_latch_dev_type and
\* ppo2_control_init find them loaded. The subsystem may fail to start, or the
\* walk over the keys stop at an error.
runtime_settings_load ==
  /\ ~loaded /\ loaded' = TRUE
  /\ \/ live' = FromStore(Keys) /\ UNCHANGED troubles
     \/ \E readable \in {{}, { {s} : s \in 1 .. 3 }} : Trouble /\ live' = FromStore(readable)
  /\ UNCHANGED <<store, rx, tune, told, kept, asked>>

\* The settings after `value' is written to setting s.
With(cfg, s, value) == [cfg EXCEPT ![s] = IF s \in Gains THEN GainOf(value) ELSE value]

\* Mutant: the edit starts from what is stored and not from the live settings.
Edited_from_store(s, value) == With(FromStore(Keys), s, value)

Edited(s, value) == With(live, s, value)

\* An edit is refused when the setting is read-only, the value too large, or
\* the settings it makes are not valid.
Accepts(s, value) ==
  /\ s # Fixed /\ value <= Max[s]
  /\ runtime_settings_validate(Edited(s, value))

Asks == loaded /\ rx = Idle /\ asked < MaxAsked /\ asked' = asked + 1

UDS_SetSettingValue(wire, value) ==
  LET s == menu_to_storage(wire) IN
  /\ Accepts(s, value)
  /\ live' = Edited(s, value)
  /\ tune' = IF tune.busy THEN [tune EXCEPT !.missed = @ \cup {s}] ELSE tune

writeSettingValueDID_handler(wire, value) ==
  /\ Asks /\ UDS_SetSettingValue(wire, value)
  /\ told' = [told EXCEPT ![wire] = value]
  /\ UNCHANGED <<store, loaded, rx, kept, troubles>>

\* A byte-sized setting is copied before the RX thread asks for the flash; the
\* gains, the depth flag and the cells' flags are passed by their address.
ByAddress == Gains \cup CellBcst \cup {Depth}

\* Mutant: the key is looked up with the wire index translated twice.
SavedKey_mapped_twice(wire) ==
  setting_index_to_field(menu_to_storage(menu_to_storage(wire)))

SavedKey(wire) == setting_index_to_field(menu_to_storage(wire))

UDS_SaveSettingValue(wire, value) ==
  LET k == SavedKey(wire)   cfg == Edited(menu_to_storage(wire), value) IN
  /\ Asks /\ UDS_SetSettingValue(wire, value)
  /\ rx' = [wire |-> wire, value |-> value, key |-> k, overtaken |-> FALSE,
            bytes |-> IF k \subseteq ByAddress THEN << >> ELSE << [s \in k |-> cfg[s]] >>]
  /\ told' = [told EXCEPT ![wire] = Unset]
  /\ UNCHANGED <<store, loaded, kept, troubles>>

\* A refused request changes nothing and is answered with an error.
Refused(wire, value) ==
  /\ Asks /\ ~Accepts(menu_to_storage(wire), value)
  /\ UNCHANGED <<live, store, loaded, rx, tune, told, kept, troubles>>

\* The flash answers: the key is written from the cache, and the client told so.
\* `shown' is what the history takes as stored: nothing, when autotune replaced
\* the settings while the save was waiting.
runtime_settings_save_field ==
  LET shown(w) == IF rx.overtaken THEN Unset
                  ELSE IF w = rx.wire THEN rx.value ELSE UDS_GetSettingValue(live, w)
  IN /\ rx # Idle /\ rx' = Idle
     /\ store' = [store EXCEPT ![rx.key] =
                   IF rx.bytes # << >> THEN rx.bytes ELSE << [s \in rx.key |-> live[s]] >>]
     /\ kept' = [w \in Wires |->
                  IF menu_to_storage(w) \in setting_index_to_field(menu_to_storage(rx.wire))
                  THEN shown(w) ELSE kept[w]]
     /\ told' = [told EXCEPT ![rx.wire] = IF rx.overtaken THEN Unset ELSE rx.value]
     /\ UNCHANGED <<live, loaded, tune, asked, troubles>>

\* The flash refuses, after its retries: the client is told so, the edit stays live.
SaveFails ==
  /\ rx # Idle /\ rx' = Idle /\ Trouble
  /\ UNCHANGED <<live, store, loaded, tune, told, kept, asked>>

-----------------------------------------------------------------------------
\* stage_gains_volatile: the copy is taken, and later written back whole.
StageCopies ==
  /\ loaded /\ ~tune.busy /\ asked < MaxAsked /\ asked' = asked + 1
  /\ tune' = [busy |-> TRUE, missed |-> {},
              copy |-> [s \in Fields |-> IF s \in Gains THEN GainOf(TunedGain) ELSE live[s]]]
  /\ UNCHANGED <<live, store, loaded, rx, told, kept, troubles>>

StageWrites ==
  /\ tune.busy /\ tune' = NotTuning
  /\ live' = IF runtime_settings_validate(tune.copy) THEN tune.copy ELSE live
  /\ rx' = IF rx = Idle THEN rx ELSE [rx EXCEPT !.overtaken = TRUE]
  /\ told' = [w \in Wires |-> IF menu_to_storage(w) \in Gains \cup tune.missed THEN Unset ELSE told[w]]
  /\ UNCHANGED <<store, loaded, kept, asked, troubles>>

\* Power is lost; a key is stored whole or not at all.
PowerCut ==
  /\ Trouble /\ loaded /\ loaded' = FALSE
  /\ live' = Default /\ rx' = Idle /\ tune' = NotTuning
  /\ told' = [w \in Wires |-> Unset]
  /\ UNCHANGED <<store, kept, asked>>

SettingsNext ==
  \/ runtime_settings_load \/ runtime_settings_save_field \/ SaveFails
  \/ StageCopies \/ StageWrites \/ PowerCut
  \/ \E r \in Requests : \/ writeSettingValueDID_handler(r[1], r[2])
                         \/ UDS_SaveSettingValue(r[1], r[2])
                         \/ Refused(r[1], r[2])

SettingsSpec == SettingsInit /\ [][SettingsNext]_vars

-----------------------------------------------------------------------------
SettingsTypeOK ==
  /\ DOMAIN live = Fields /\ DOMAIN store = Keys /\ {loaded, tune.busy} \subseteq BOOLEAN
  /\ rx.wire \in Wires \cup {Unset} /\ tune.missed \subseteq Fields
  /\ asked \in 0 .. MaxAsked /\ troubles \in 0 .. MaxTroubles

\* A client that was told its write to a menu entry took effect reads that value
\* back at the same entry, whatever else is edited, saved or refused meanwhile,
\* until it writes the entry again, autotune writes back a copy it took before,
\* or the head restarts (UDS_SetSettingValue, runtime_settings_set_volatile).
EditStands ==
  loaded => \A w \in Wires : told[w] # Unset => Same(w, UDS_GetSettingValue(live, w), told[w])

\* The stored depth flag, if there is one, is one this build can act on.
DepthFits == store[{Depth}] # << >> => store[{Depth}][1][Depth] \in Valid[Depth]

StoredShows ==
  \A w \in Wires : kept[w] # Unset => Same(w, UDS_GetSettingValue(FromStore(Keys), w), kept[w])

\* A value a client was told is stored is what the next start of a head that can
\* read its keys shows at that menu entry, through failed saves, power cuts, and
\* edits of other entries that were never saved; only a later save under the same
\* key changes it (UDS_SaveSettingValue, runtime_settings_save_field). A save that
\* autotune's write-back overtook promises nothing, and none counts while a depth
\* flag that another variant stored makes this one throw its settings away.
SavedSurvives == DepthFits => StoredShows

\* "A write to 0x9350 + N persists it to NVS" (docs/DATA_IDENTIFIERS.md), whatever
\* earlier firmware left in the keys (load_depth, runtime_settings_load). Refuted: see
\* DepthFits.
SavedIsLoaded == StoredShows
=============================================================================
