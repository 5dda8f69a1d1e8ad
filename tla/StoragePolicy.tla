--------------------------- MODULE StoragePolicy ---------------------------
(* The disk space policy (main/storage/spacePolicy.ts): what a transfer     *)
(* needs at its peak, while it downloads and when its ZIP is begun.  Sizes  *)
(* are whole numbers of bytes, so the two Math.ceil are exact here; the     *)
(* code multiplies by 0.05 and 0.1 in floating point, which may round one   *)
(* byte up.                                                                 *)
EXTENDS Integers

CONSTANTS ReserveFloor,   \* SAFETY_RESERVE_FLOOR_BYTES
          ZipPerFile,     \* ZIP_METADATA_PER_FILE_BYTES
          ZipFixed,       \* ZIP_FIXED_OVERHEAD_BYTES
          WarningFloor    \* WARNING_HEADROOM_FLOOR_BYTES

ASSUME PolicyAssumption ==
  ReserveFloor \in Nat /\ ZipPerFile \in Nat /\ ZipFixed \in Nat /\ WarningFloor \in Nat

Larger(a, b) == IF a >= b THEN a ELSE b

\* Math.ceil(bytes / n).
Share(bytes, n) == (bytes + n - 1) \div n

\* Mutant: the names and headers of the files are forgotten.
EstimateWithoutHeaders(selected, count) == selected + ZipFixed

EstimateZipBytes(selected, count) == selected + count * ZipPerFile + ZipFixed

ComputeSafetyReserve(selected) == Larger(ReserveFloor, Share(selected, 20))

WarningThresholdBytes(required) == Larger(WarningFloor, Share(required, 10))

ClassifyStatus(headroom, required) ==
  CASE headroom < 0                               -> "blocked"
    [] 0 <= headroom /\ headroom < WarningThresholdBytes(required) -> "warning"
    [] OTHER                                      -> "ok"

ZipBytes(selected, count, zip) == IF zip THEN EstimateZipBytes(selected, count) ELSE 0

\* computeSpaceRequirement: download, ZIP and reserve at the same time.
RequiredPeakBytes(selected, count, zip) ==
  selected + ZipBytes(selected, count, zip) + ComputeSafetyReserve(selected)

\* What the rest of a transfer needs with "downloaded" of "selected" on the disk.
RequiredFutureBytes(selected, downloaded, count, zip) ==
  (selected - downloaded) + ZipBytes(selected, count, zip) + ComputeSafetyReserve(selected)

RequiredAdditionalBytes(selected, count) ==
  EstimateZipBytes(selected, count) + ComputeSafetyReserve(selected)

EvaluatePreflight(free, selected, count, zip) ==
  LET required == RequiredPeakBytes(selected, count, zip)
  IN  ClassifyStatus(free - required, required)

ComputeLiveHeadroom(free, selected, downloaded, count, zip) ==
  LET required == RequiredFutureBytes(selected, downloaded, count, zip)
  IN  ClassifyStatus(free - required, required)

\* The gateway of the engine: a volume whose free space is unknown blocks nothing
\* and warns of nothing.
Unknown == -1

PreflightOk(free, selected, count, zip) ==
  free # Unknown => EvaluatePreflight(free, selected, count, zip) # "blocked"

LiveWarning(free, selected, downloaded, count, zip) ==
  LET status == ComputeLiveHeadroom(free, selected, downloaded, count, zip)
  IN  CASE free = Unknown \/ status = "ok"            -> "none"
        [] free # Unknown /\ status = "warning"       -> "low"
        [] free # Unknown /\ status = "blocked"       -> "critical"

\* evaluatePackagingStart: whether it allows the ZIP, and what is missing.
PackagingAllowed(free, selected, count) == free - RequiredAdditionalBytes(selected, count) >= 0

DeficitBytes(free, required) == Larger(0, required - free)
=============================================================================
