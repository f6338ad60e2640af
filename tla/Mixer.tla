------------------------------- MODULE Mixer -------------------------------
(***************************************************************************)
(* The system volume (crates/volume/src/lib.rs): simple elements of one    *)
(* ALSA card, whose volume is a number of a range Lo..Hi and is set and    *)
(* read as a percentage; and the stream volume (GLOBAL_VOLUME of           *)
(* crates/stream/src/player.rs), by which samples are scaled.              *)
(***************************************************************************)
EXTENDS Calls, Integers

CONSTANTS Controls,                 \* of "Master", "PCM": the elements of the card
          HasVolume, HasSwitch,     \* which of them have one
          Lo, Hi                    \* get_playback_volume_range

ASSUME MixerAssumption == /\ HasVolume \subseteq Controls /\ HasSwitch \subseteq Controls
                          /\ Lo \in Int /\ Hi \in Int /\ Lo <= Hi

VARIABLES
  level,    \* raw volume of each element
  muted,    \* whether its switch is off
  asked,    \* history: the percentage last set, -1 when somebody else has moved it
  gain      \* GLOBAL_VOLUME

mixerVars == <<level, muted, asked, gain>>

MixerInit ==
  /\ level \in [Controls -> {Lo, Hi}] /\ muted = [m \in Controls |-> FALSE]
  /\ asked = [m \in Controls |-> -1] /\ gain = 100

\* find_selem: a card without "Master" may have "PCM".
Find(sel) == IF sel \in Controls THEN sel
             ELSE IF sel = "Master" /\ "PCM" \in Controls THEN "PCM" ELSE "none"

AtLeast(a, b) == IF a < b THEN b ELSE a
AtMost(a, b) == IF a < b THEN a ELSE b

\* get: the percentage of a raw volume, truncated and clamped.
Percent(raw) == AtLeast(0, AtMost(100, ((raw - Lo) * 100) \div AtLeast(Hi - Lo, 1)))

\* mutant
RawUp(pct) == Lo + (AtMost(pct, 100) * (Hi - Lo) + 99) \div 100

\* mutant
RawUnclamped(pct) == Lo + (pct * (Hi - Lo)) \div 100

\* set_volume: the raw volume of a percentage, of at most 100.
Raw(pct) == Lo + (AtMost(pct, 100) * (Hi - Lo)) \div 100

ReadPercent(m) == IF m \in HasVolume THEN Percent(level[m]) ELSE Percent(Hi)
ReadMuted(m) == m \in HasSwitch /\ muted[m]

\* publish_volume: get(), then the event.
PublishVolume(sel) == Try(<<"open", "percent", "muted", "publish">>, sel, "event")
GetVolume(sel) == Try(<<"open", "percent", "muted">>, sel, "Internal")
SetLevel(kind, sel) == Try(<<"open", kind>>, sel, "Internal") \o PublishVolume(sel)
ListMixers == Try(<<"card">>, "none", "Internal")

\* set_volume of the stream: the event says what was stored.
SetStreamVolume == Try(<<"gain", "publish">>, "stream", "Internal")

\* apply_gain, of one sample of 16 bits, in 32 bits; the quotient is truncated.
ApplyGain(sample, pct) ==
  IF pct >= 100 THEN sample
  ELSE IF sample >= 0 THEN (sample * pct) \div 100 ELSE -((-sample * pct) \div 100)

-----------------------------------------------------------------------------
(* The steps. *)

\* Mixer::new and find_selem.
OpenStep(c) ==
  /\ \/ Due(c, "open") /\ ((Find(Now(c).on) # "none" /\ Pass(c)) \/ Miss(c))
     \/ Due(c, "card") /\ Ask(c)
  /\ UNCHANGED mixerVars

LevelStep(c) == LET m == Find(Now(c).on) IN
  /\ Due(c, "set_volume") /\ UNCHANGED <<muted, gain>>
  /\ \/ /\ m \in HasVolume /\ Do(c)
        /\ level' = [level EXCEPT ![m] = Raw(call[c].arg)]
        /\ asked' = [asked EXCEPT ![m] = call[c].arg]
     \/ Miss(c) /\ UNCHANGED <<level, asked>>

SwitchStep(c) == LET m == Find(Now(c).on) IN
  /\ Due(c, "set_mute") /\ UNCHANGED <<level, asked, gain>>
  /\ \/ m \in HasSwitch /\ Do(c) /\ muted' = [muted EXCEPT ![m] = call[c].arg = 1]
     \/ Miss(c) /\ UNCHANGED muted

ReadVolumeStep(c) == LET m == Find(Now(c).on) IN
  /\ \/ Due(c, "percent") /\ See(c, "percent", {ReadPercent(m)})
     \/ Due(c, "muted") /\ See(c, "muted", {ReadMuted(m)})
     \/ (Due(c, "percent") \/ Due(c, "muted")) /\ Miss(c)
  /\ UNCHANGED mixerVars

GainStep(c) ==
  /\ Due(c, "gain") /\ Do(c) /\ gain' = AtMost(call[c].arg, 100)
  /\ UNCHANGED <<level, muted, asked>>

MixerStep(c) == OpenStep(c) \/ LevelStep(c) \/ SwitchStep(c) \/ ReadVolumeStep(c) \/ GainStep(c)

\* Another program moves the control.
Knob(m) ==
  /\ UNCHANGED gain
  /\ \/ level' = [level EXCEPT ![m] = Hi] /\ asked' = [asked EXCEPT ![m] = -1] /\ UNCHANGED muted
     \/ muted' = [muted EXCEPT ![m] = ~@] /\ UNCHANGED <<level, asked>>

MixerFacts(sel) == LET m == Find(sel) IN
  IF m = "none" THEN {} ELSE {<<"percent", ReadPercent(m)>>, <<"muted", ReadMuted(m)>>}

-----------------------------------------------------------------------------
(* Properties. *)

MixerTypeOK ==
  /\ level \in [Controls -> Lo..Hi] /\ muted \in [Controls -> BOOLEAN]
  /\ asked \in [Controls -> Int] /\ gain \in 0..100

Sample16 == {-32768, -101, -1, 0, 1, 101, 32767}

\* A volume that was set is never louder than asked, and within one step of the
\* mixer of what was asked; a client that sets the percentage it has read makes
\* nothing louder; and no sample is scaled past itself or its sign.
NeverLouder ==
  /\ \A m \in Controls :
       /\ Raw(Percent(level[m])) <= level[m]
       /\ asked[m] >= 0 => LET pct == AtMost(asked[m], 100) IN
            /\ Percent(level[m]) <= pct \/ Hi = Lo
            /\ (pct - Percent(level[m])) * (Hi - Lo) <= 100 + (Hi - Lo)
  /\ \A s \in Sample16 : LET t == ApplyGain(s, gain) IN (0 <= t /\ t <= s) \/ (s <= t /\ t <= 0)
=============================================================================
