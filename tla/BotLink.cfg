\* Every trigger of a shutdown against every await of the boot, over a link
\* that may break twice, under the fairness the bot's own timeouts justify.
SPECIFICATION LinkedSpec
CONSTANTS
  NoShim = NoShim
  Requests = {r1}
  Shims = {s1, s2}
  DiagDir = TRUE
  MaxReports = 2
  MaxFaults = 1
INVARIANT BotAndLinkAgree
PROPERTIES NothingComesUpLate RequestsAreDecided LinkComesBack
CHECK_DEADLOCK FALSE
