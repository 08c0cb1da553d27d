SPECIFICATION Spec
CONSTANTS
  lic = lic
  op = op
  mail = mail
  bell = bell
  Events = {lic, op}
  LicenseEvents = {lic}
  Addresses = {mail, bell}
  Mail = {mail}
  Reach <- MCReach
  Admins = {a1}
  None = None
  MaxAttempts = 2
  MaxStops = 1
INVARIANTS
  IInv
PROPERTIES
  AudienceQueued
  NotResent
  LicenseNoticed
  AllSettled
CHECK_DEADLOCK FALSE
