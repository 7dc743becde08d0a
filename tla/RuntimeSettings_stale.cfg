SPECIFICATION SettingsFairSpec
CONSTANTS
  Users = {u1}
  Divisions = {d1}
  Roles = {owner}
  BusinessRoles = {owner}
  None = None
  Editors = {e1}
  Values = {standard, custom}
  Baseline = standard
  MaxVersion = 1
  MaxLosses = 1
PROPERTIES
  ReloadCatchesUp
