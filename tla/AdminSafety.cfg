\* One row with two revisions, or two agents, which their page inserts and
\* deletes only; two requests, or a request and another browser, around a fetch.
SPECIFICATION AdminSpec
CONSTANTS
  NoData = NoData
  Nobody = Nobody
  Unset = Unset
  Default = v1
  Pages = {"jobs", "form", "storage", "agents", "settings"}
  RowIds <- MCRowIds
  Slots12 = {r1, r2}
  AgentIds = {a1, a2}
  Requests <- MCRequests
  MaxRevs <- MCMaxRevs
  Types = {"local", "s3"}
  JobTypes = {"files", "sqlite"}
  Required = {"agent_id", "name"}
  Vals = {v1, v2}
  Savers = {t1, t2}
  MaxSaves = 2
SYMMETRY Symmetry
INVARIANTS ReadYourWrites DialogIsWhole ConfigIsOfDestination
  SourceFitsType TypingIsKept LastSaveWins
PROPERTIES KeyIsNotReplaced ConfigurationStays
