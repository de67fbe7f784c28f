------------------------------ MODULE MCPrefManager ------------------------------
\* Model-checking instance of PrefManager: the build has one of the two targets.
EXTENDS PrefManagerEsp, TLC

CONSTANTS number, real, array, text,
          PiKeys, PiType, PiBuffers, PiTexts, KeepsBuffers, Broken

\* A buffer is not the double that is no number.
ASSUME PiAssumption ==
  /\ PiType \in [PiKeys -> {"u8", "u16", "u32", "u64", "i16", "i32", "float", "double",
                            "ary", "str"}]
  /\ "nan" \notin PiBuffers

VARIABLES BUILD_TARGET, phase, doc, file, buf, piCall

Pi == INSTANCE PrefManagerPi WITH
        Keys <- PiKeys, Type <- PiType, Texts <- PiTexts, Buffers <- PiBuffers, call <- piCall

piVars == <<phase, doc, file, buf, piCall>>

Esp32 == BUILD_TARGET = "TARGET_ESP32"
Pi3   == BUILD_TARGET = "TARGET_PI3"

MCInit == /\ BUILD_TARGET \in {"TARGET_ESP32", "TARGET_PI3"}
          /\ Init /\ Pi!Init
          /\ Esp32 => \A b \in PiBuffers : buf[b] = "hello"
MCNext == \/ Esp32 /\ Next /\ UNCHANGED <<BUILD_TARGET, piVars>>
          \/ Pi3 /\ Pi!Next /\ UNCHANGED <<BUILD_TARGET, vars>>
MCSpec == MCInit /\ [][MCNext]_<<BUILD_TARGET, vars, piVars>>

\* The types of the variables of the Raspberry Pi's PrefManager.
PiTypeOK == Pi!TypeOK

\* The Raspberry Pi's PrefManager implements the store (see PrefManagerPi).
PiIsPrefs == Pi!IsPrefs

FourKeys  == {number, real, array, text}
ThreeKeys == {number, real, text}
TypeOf    == number :> "int" @@ real :> "real" @@ array :> "ary" @@ text :> "str"
PiTypeOf  == number :> "i16" @@ real :> "float" @@ text :> "str"
OneChar   == {1}
TwoTexts  == {"hello", "world"}
OneBuffer == {"buffer"}
=================================================================================
