CONSTANTS
    None = None
    Country = {a, b}
    Partner = {pa, pb}
    OwnPartner = pa
    PartnerCountry <- PartnersOfCountries
    Child = {c1, c2}
    NameOf <- OneName
    IdRequired = {a}
    Sections = {a}
    Located = {a, b}
    MaxOwn = 1
    MaxOthers = 1
SPECIFICATION Spec
CHECK_DEADLOCK FALSE
INVARIANTS TypeOK RecordFitsCountry AdvisedBeforeSameName
