CONSTANTS
  Here = "here"
  Escaping = {"../out", "/etc"}
  Blank = {" "}
  Redirects = {"cat <<EOF"}
  BadTargets = {"", "-oProxyCommand"}
  BadRegexes = {"("}
  Atoi <- MCAtoi
  Durations <- MCDurations
  Refs <- MCRefs
  Filled <- MCFilled
  Source <- MCSource
  Exact <- MCExact
  Rounded <- MCRounded
  Marshalled <- MCMarshalled
  Documents <- MCDocuments
  Typed = {"", "gamma"}
  Generated = {"gen"}
  Endings <- MCEndings
  MaxFaults = 2
SPECIFICATION Spec
INVARIANTS
  FixturesReachTheCommand
  VerdictIsTheTruth
